---- MODULE Spec2Model ----
(***************************************************************************)
(* Model of the retrieval core of the forensics learning platform:         *)
(*   - LRUCache            (utils/LRUCache.ts)                             *)
(*   - Trie                (utils/Trie.ts)                                 *)
(*   - CaseStudyMigration, CaseStudyIngestionService, CaseStudyRAGService  *)
(*   - ForensicKnowledgeService (services/forensicKnowledge.ts)            *)
(*   - Graph               (utils/Graph.ts)                                *)
(* Text is modelled as a sequence of one-character strings so that         *)
(* toLowerCase, includes, split and the citation regex are computed.       *)
(***************************************************************************)
EXTENDS Integers, Sequences, FiniteSets, TLC

VARIABLES
    lru,        \* the LRUCache object: capacity, cache (Map), head, tail, hits, misses
    lruTouch,   \* history: keys currently stored, most recently touched first
    lruOut,     \* the last LRUCache call and what it returned
    trie,       \* the Trie object: root-addressed nodes and size
    trieWords,  \* history: lowercase words inserted and not deleted since
    trieOut,    \* the Trie call whose result the caller holds
    rag,        \* the CaseStudyRAGService object: ingestionService, enhancedCases
    call,       \* the service call whose result the caller holds, with the steps it took
    response,   \* the value that call returned
    fks,        \* the ForensicKnowledgeService singleton: data, tries, responseCache
    fksOut,     \* the last ForensicKnowledgeService call and what it returned
    graph,      \* the Graph object: adjacencyList, isDirected, vertexCount, edgeCount
    graphOut    \* the last Graph call, what it returned, and the calls made so far

vars == <<lru, lruTouch, lruOut, trie, trieWords, trieOut,
          rag, call, response, fks, fksOut, graph, graphOut>>

lruVars == <<lru, lruTouch, lruOut>>
trieVars == <<trie, trieWords, trieOut>>
ragVars == <<rag, call, response>>
fksVars == <<fks, fksOut>>
graphVars == <<graph, graphOut>>

NULL == <<"null">>
UNDEFINED == <<"undefined">>

(***************************************************************************)
(* Strings: a string is a sequence of characters                           *)
(***************************************************************************)
EmptyMap == [x \in {} |-> NULL]

UpperChars == <<"A","B","C","D","E","F","G","H","I","J","K","L","M","N","O","P","Q","R","S","T","U","V",
      "W","X","Y","Z">>
LowerChars == <<"a","b","c","d","e","f","g","h","i","j","k","l","m","n","o","p","q","r","s","t","u","v",
      "w","x","y","z">>
DigitChars == <<"0","1","2","3","4","5","6","7","8","9">>

\* String.prototype.toLowerCase, one character
toLowerCaseChar(ch) ==
    IF \E j \in 1..Len(UpperChars) : UpperChars[j] = ch
    THEN LowerChars[CHOOSE j \in 1..Len(UpperChars) : UpperChars[j] = ch]
    ELSE ch

toLowerCase(s) == [i \in 1..Len(s) |-> toLowerCaseChar(s[i])]

\* String.prototype.toUpperCase, one character
toUpperCaseChar(ch) ==
    IF \E j \in 1..Len(LowerChars) : LowerChars[j] = ch
    THEN UpperChars[CHOOSE j \in 1..Len(LowerChars) : LowerChars[j] = ch]
    ELSE ch

toUpperCase(s) == [i \in 1..Len(s) |-> toUpperCaseChar(s[i])]

\* String.prototype.includes
includes(s, sub) ==
    \E i \in 0..(Len(s) - Len(sub)) : SubSeq(s, i + 1, i + Len(sub)) = sub

\* String.prototype.startsWith
strStartsWith(s, pre) ==
    Len(pre) <= Len(s) /\ SubSeq(s, 1, Len(pre)) = pre

\* String.prototype.substring(0, n)
substring0(s, n) == SubSeq(s, 1, IF Len(s) < n THEN Len(s) ELSE n)

\* Array.prototype.slice(0, n)
slice0(a, n) == SubSeq(a, 1, IF Len(a) < n THEN Len(a) ELSE n)

\* Array.prototype.join
RECURSIVE join(_, _)
join(a, sep) ==
    IF Len(a) = 0 THEN <<>>
    ELSE IF Len(a) = 1 THEN a[1]
    ELSE a[1] \o sep \o join(Tail(a), sep)

\* concatenation of a list of strings
RECURSIVE Concat(_)
Concat(a) == IF Len(a) = 0 THEN <<>> ELSE a[1] \o Concat(Tail(a))

\* the regex classes \w and \s
IsWordChar(ch) ==
    \/ \E j \in 1..Len(LowerChars) : LowerChars[j] = ch \/ UpperChars[j] = ch
    \/ \E j \in 1..Len(DigitChars) : DigitChars[j] = ch
    \/ ch = "_"

IsSpaceChar(ch) == ch \in {" ", "\n", "\t", "\r"}

\* String.prototype.split(sep) for a one-character separator
RECURSIVE splitChar(_, _)
splitChar(s, sep) ==
    IF \A i \in 1..Len(s) : s[i] # sep THEN <<s>>
    ELSE LET i == CHOOSE i \in 1..Len(s) :
                     s[i] = sep /\ \A j \in 1..(i - 1) : s[j] # sep
         IN  <<SubSeq(s, 1, i - 1)>> \o splitChar(SubSeq(s, i + 1, Len(s)), sep)

\* String.prototype.split(/\s+/)
RECURSIVE splitSpaces(_)
splitSpaces(s) ==
    IF \A i \in 1..Len(s) : ~IsSpaceChar(s[i]) THEN <<s>>
    ELSE LET i == CHOOSE i \in 1..Len(s) :
                     IsSpaceChar(s[i]) /\ \A j \in 1..(i - 1) : ~IsSpaceChar(s[j])
             k == CHOOSE k \in i..Len(s) :
                     /\ \A j \in i..k : IsSpaceChar(s[j])
                     /\ (k = Len(s) \/ ~IsSpaceChar(s[k + 1]))
         IN  <<SubSeq(s, 1, i - 1)>> \o splitSpaces(SubSeq(s, k + 1, Len(s)))

\* decimal text of a natural number (template literal `${n}`)
RECURSIVE numToString(_)
numToString(n) ==
    IF n < 10 THEN <<DigitChars[n + 1]>>
    ELSE numToString(n \div 10) \o <<DigitChars[(n % 10) + 1]>>

\* members of a sequence
Range(a) == {a[i] : i \in 1..Len(a)}

\* Array.prototype.filter
filter(a, Test(_)) == SelectSeq(a, Test)

\* Array.from(new Set(a)): first occurrences, in order
dedupe(a) ==
    LET keep == SelectSeq([i \in 1..Len(a) |-> [i |-> i, x |-> a[i]]],
                          LAMBDA p : \A j \in 1..(p.i - 1) : a[j] # p.x)
    IN  [n \in 1..Len(keep) |-> keep[n].x]

\* all but the last element
Front(a) == SubSeq(a, 1, Len(a) - 1)

(***************************************************************************)
(* LRUCache                                                                *)
(***************************************************************************)
MaxCapacity == 3
MaxNegativeCapacity == 1
MaxAccesses == 3

LKeys == {<<"k","1">>, <<"k","2">>, <<"k","3">>}
LValues == {<<"v","1">>, <<"v","2">>}

\* new LRUNode(key, value): prev and next start as null
LRUNode(key, value) == [key |-> key, value |-> value, prev |-> NULL, next |-> NULL]

\* (variant: a capacity of zero is let through)
LRUCacheThrows_zeroAccepted(capacity) == capacity < 0

\* whether the constructor throws
LRUCacheThrows(capacity) == capacity <= 0

\* what is left of a construction that threw: no object, only the error
NoCache ==
    [error |-> <<"C","a","p","a","c","i","t","y"," ","m","u","s","t"," ","b","e"," ","g","r","e","a","t",
      "e","r"," ","t","h","a","n"," ","0">>]

\* new LRUCache(capacity), capacity > 0
LRUCacheNew(capacity) ==
    [capacity |-> capacity, cache |-> EmptyMap, head |-> NULL, tail |-> NULL,
     hits |-> 0, misses |-> 0]

\* Map.delete(key)
MapDelete(m, k) == [x \in (DOMAIN m) \ {k} |-> m[x]]

\* Map.set(key, value)
MapSet(m, k, v) == [x \in (DOMAIN m) \cup {k} |-> IF x = k THEN v ELSE m[x]]

addToHead(c, k) ==
    LET c1 == [c EXCEPT !.cache[k].prev = NULL, !.cache[k].next = c.head]
        c2 == IF c.head # NULL THEN [c1 EXCEPT !.cache[c.head].prev = k] ELSE c1
        c3 == [c2 EXCEPT !.head = k]
    IN  IF c3.tail = NULL THEN [c3 EXCEPT !.tail = k] ELSE c3

\* (variant: unlinking the last node leaves tail where it was)
removeNode_keepsTail(c, k) ==
    LET n  == c.cache[k]
        c1 == IF n.prev # NULL THEN [c EXCEPT !.cache[n.prev].next = n.next]
                               ELSE [c EXCEPT !.head = n.next]
    IN  IF n.next # NULL THEN [c1 EXCEPT !.cache[n.next].prev = n.prev]
                         ELSE c1

removeNode(c, k) ==
    LET n  == c.cache[k]
        c1 == IF n.prev # NULL THEN [c EXCEPT !.cache[n.prev].next = n.next]
                               ELSE [c EXCEPT !.head = n.next]
    IN  IF n.next # NULL THEN [c1 EXCEPT !.cache[n.next].prev = n.prev]
                         ELSE [c1 EXCEPT !.tail = n.prev]

\* (variant: an access does not promote the node)
moveToHead_noPromotion(c, k) == c

moveToHead(c, k) ==
    IF k = c.head THEN c ELSE addToHead(removeNode(c, k), k)

removeTail(c) ==
    IF c.tail = NULL THEN c
    ELSE LET tailNode == c.cache[c.tail]
             c1 == removeNode(c, c.tail)
         IN  [c1 EXCEPT !.cache = MapDelete(c1.cache, tailNode.key)]

lruSize(c) == Cardinality(DOMAIN c.cache)

lruHas(c, k) == k \in DOMAIN c.cache

\* (variant: hits is counted before the lookup is tested)
lruGet_hitsBeforeCheck(c, k) ==
    IF k \notin DOMAIN c.cache
    THEN [c EXCEPT !.hits = c.hits + 1, !.misses = c.misses + 1]
    ELSE moveToHead([c EXCEPT !.hits = c.hits + 1], k)

\* get: the state after the call
lruGet(c, k) ==
    IF k \notin DOMAIN c.cache
    THEN [c EXCEPT !.misses = c.misses + 1]
    ELSE moveToHead([c EXCEPT !.hits = c.hits + 1], k)

\* get: the returned value
lruGetResult(c, k) ==
    IF k \notin DOMAIN c.cache THEN UNDEFINED ELSE c.cache[k].value

\* (variant: an update leaves the entry where it is in the list)
lruPut_updateKeepsPlace(c, k, v) ==
    IF k \in DOMAIN c.cache
    THEN [c EXCEPT !.cache[k].value = v]
    ELSE LET c1 == [c EXCEPT !.cache = MapSet(c.cache, k, LRUNode(k, v))]
             c2 == addToHead(c1, k)
         IN  IF lruSize(c2) > c2.capacity THEN removeTail(c2) ELSE c2

lruPut(c, k, v) ==
    IF k \in DOMAIN c.cache
    THEN moveToHead([c EXCEPT !.cache[k].value = v], k)
    ELSE LET c1 == [c EXCEPT !.cache = MapSet(c.cache, k, LRUNode(k, v))]
             c2 == addToHead(c1, k)
         IN  IF lruSize(c2) > c2.capacity THEN removeTail(c2) ELSE c2

\* (variant: the map entry goes, the node stays linked in the list)
lruDelete_skipsUnlink(c, k) ==
    IF k \notin DOMAIN c.cache THEN c
    ELSE [c EXCEPT !.cache = MapDelete(c.cache, k)]

\* delete: the state after the call (the result is whether the key was stored)
lruDelete(c, k) ==
    IF k \notin DOMAIN c.cache THEN c
    ELSE LET c1 == removeNode(c, k)
         IN  [c1 EXCEPT !.cache = MapDelete(c1.cache, k)]

\* (variant: the counters survive a clear)
lruClear_keepsCounters(c) ==
    [c EXCEPT !.cache = EmptyMap, !.head = NULL, !.tail = NULL]

lruClear(c) ==
    [c EXCEPT !.cache = EmptyMap, !.head = NULL, !.tail = NULL, !.hits = 0, !.misses = 0]

resetStats(c) == [c EXCEPT !.hits = 0, !.misses = 0]

\* (variant: the percentage is cut off instead of rounded)
getStats_floor(c) ==
    LET total == c.hits + c.misses
    IN  [hits |-> c.hits, misses |-> c.misses,
         hitRate |-> IF total = 0 THEN 0 ELSE (c.hits * 10000) \div total,
         size |-> Cardinality(DOMAIN c.cache), capacity |-> c.capacity]

\* getStats: hitRate is kept in hundredths of a percent, that is the value
\* of Math.round(hitRate * 10000) before the division by 100
getStats(c) ==
    LET total == c.hits + c.misses
    IN  [hits |-> c.hits, misses |-> c.misses,
         hitRate |-> IF total = 0 THEN 0
                     ELSE (2 * c.hits * 10000 + total) \div (2 * total),
         size |-> Cardinality(DOMAIN c.cache), capacity |-> c.capacity]

\* the nodes met from `from` by following field `dir` ("next" or "prev");
\* fuel stops the walk where the code would loop or dereference a dropped node
RECURSIVE Walk(_, _, _, _)
Walk(c, from, dir, fuel) ==
    IF from = NULL \/ fuel = 0 \/ from \notin DOMAIN c.cache THEN <<>>
    ELSE <<from>> \o Walk(c, c.cache[from][dir], dir, fuel - 1)

\* (variant: the walk starts at the tail and follows prev)
lruKeys_fromTail(c) == Walk(c, c.tail, "prev", lruSize(c) + 1)

\* keys(): from most to least recently used
lruKeys(c) == Walk(c, c.head, "next", lruSize(c) + 1)

\* values(): the values of the nodes met from head through next
lruValues(c) ==
    LET nodes == Walk(c, c.head, "next", lruSize(c) + 1)
    IN  [i \in 1..Len(nodes) |-> c.cache[nodes[i]].value]

\* entries(): the [key, value] pairs of the nodes met from head through next
lruEntries(c) ==
    LET nodes == Walk(c, c.head, "next", lruSize(c) + 1)
    IN  [i \in 1..Len(nodes) |-> <<c.cache[nodes[i]].key, c.cache[nodes[i]].value>>]

\* history bookkeeping for the recency order
Without(s, k) == SelectSeq(s, LAMBDA x : x # k)
Touch(s, k) == <<k>> \o Without(s, k)

LruInit ==
    /\ \E capacity \in 1..MaxCapacity : lru = LRUCacheNew(capacity)
    /\ lruTouch = <<>>
    /\ lruOut = [op |-> "new", key |-> NULL, result |-> NULL, dropped |-> {}]

\* new LRUCache(capacity) for any integer capacity
LruNew ==
    \E capacity \in (0 - MaxNegativeCapacity)..MaxCapacity :
        /\ lru = IF LRUCacheThrows(capacity) THEN NoCache ELSE LRUCacheNew(capacity)
        /\ lruTouch = <<>>
        /\ lruOut = [op |-> "new", key |-> NULL, result |-> NULL, dropped |-> {},
                     capacity |-> capacity, threw |-> LRUCacheThrows(capacity)]

Get(k) ==
    /\ lru.hits + lru.misses < MaxAccesses
    /\ lru' = lruGet(lru, k)
    /\ lruTouch' = IF k \in DOMAIN lru.cache THEN Touch(lruTouch, k) ELSE lruTouch
    /\ lruOut' = [op |-> "get", key |-> k, result |-> lruGetResult(lru, k),
                 dropped |-> (DOMAIN lru.cache) \ (DOMAIN lru'.cache)]

Put(k, v) ==
    /\ lru' = lruPut(lru, k, v)
    /\ lruTouch' = LET t == Touch(lruTouch, k)
                   IN  IF Len(t) > lru.capacity THEN SubSeq(t, 1, Len(t) - 1) ELSE t
    /\ lruOut' = [op |-> "put", key |-> k, value |-> v, result |-> NULL,
                 dropped |-> (DOMAIN lru.cache) \ (DOMAIN lru'.cache),
                 before |-> lruKeys(lru)]

\* (variant: a check of a stored key makes it the most recently used)
Has_movesToHead(k) ==
    /\ lru' = IF k \in DOMAIN lru.cache THEN moveToHead(lru, k) ELSE lru
    /\ lruTouch' = lruTouch
    /\ lruOut' = [op |-> "has", key |-> k, result |-> lruHas(lru, k),
                 dropped |-> (DOMAIN lru.cache) \ (DOMAIN lru'.cache)]

Has(k) ==
    /\ lru' = lru
    /\ lruTouch' = lruTouch
    /\ lruOut' = [op |-> "has", key |-> k, result |-> lruHas(lru, k),
                 dropped |-> (DOMAIN lru.cache) \ (DOMAIN lru'.cache)]

Delete(k) ==
    /\ lru' = lruDelete(lru, k)
    /\ lruTouch' = Without(lruTouch, k)
    /\ lruOut' = [op |-> "delete", key |-> k, result |-> lruHas(lru, k),
                 dropped |-> (DOMAIN lru.cache) \ (DOMAIN lru'.cache),
                 before |-> lruKeys(lru)]

Clear ==
    /\ lru' = lruClear(lru)
    /\ lruTouch' = <<>>
    /\ lruOut' = [op |-> "clear", key |-> NULL, result |-> NULL,
                 dropped |-> (DOMAIN lru.cache) \ (DOMAIN lru'.cache)]

ResetStats ==
    /\ lru' = resetStats(lru)
    /\ lruTouch' = lruTouch
    /\ lruOut' = [op |-> "resetStats", key |-> NULL, result |-> NULL,
                 dropped |-> (DOMAIN lru.cache) \ (DOMAIN lru'.cache)]


GetStats ==
    /\ lru' = lru
    /\ lruTouch' = lruTouch
    /\ lruOut' = [op |-> "getStats", key |-> NULL, result |-> getStats(lru),
                 dropped |-> {}]

Keys ==
    /\ lru' = lru
    /\ lruTouch' = lruTouch
    /\ lruOut' = [op |-> "keys", key |-> NULL, result |-> lruKeys(lru), dropped |-> {}]

Values ==
    /\ lru' = lru
    /\ lruTouch' = lruTouch
    /\ lruOut' = [op |-> "values", key |-> NULL, result |-> lruValues(lru), dropped |-> {}]

Entries ==
    /\ lru' = lru
    /\ lruTouch' = lruTouch
    /\ lruOut' = [op |-> "entries", key |-> NULL, result |-> lruEntries(lru), dropped |-> {}]
(***************************************************************************)
(* Trie: a node is addressed by the path of characters leading to it       *)
(***************************************************************************)
MaxWordLen == 2
MaxWords == 2
MaxLimit == 2

TChars == {"a", "b", "A"}

TWords == UNION {[1..n -> TChars] : n \in 0..MaxWordLen}

\* new TrieNode(): children is a Map, kept here as its keys in insertion order
TrieNode == [children |-> <<>>, isEndOfWord |-> FALSE, value |-> UNDEFINED]

\* new Trie()
TrieNew == [nodes |-> [p \in {<<>>} |-> TrieNode], size |-> 0]

\* the loop of insert: along word, each node lacking the next character as a
\* child gets it appended (children.set) and the missing nodes are created
insertWalk(nodes, word) ==
    LET prefixes == {SubSeq(word, 1, n) : n \in 0..Len(word)}
    IN  [p \in (DOMAIN nodes) \cup prefixes |->
            LET current == IF p \in DOMAIN nodes THEN nodes[p] ELSE TrieNode
            IN  IF p \in prefixes /\ Len(p) < Len(word)
                   /\ word[Len(p) + 1] \notin Range(current.children)
                THEN [current EXCEPT !.children = Append(@, word[Len(p) + 1])]
                ELSE current]

\* (variant: every non-empty insert is counted)
trieInsert_alwaysCounts(t, word) ==
    IF Len(word) = 0 THEN t
    ELSE LET normalizedWord == toLowerCase(word)
             nodes1 == insertWalk(t.nodes, normalizedWord)
         IN  IF ~nodes1[normalizedWord].isEndOfWord
             THEN [nodes |-> [nodes1 EXCEPT ![normalizedWord].isEndOfWord = TRUE,
                                            ![normalizedWord].value = word],
                   size |-> t.size + 1]
             ELSE [nodes |-> nodes1, size |-> t.size + 1]

\* (variant: the lowercased word is stored at the terminal node)
trieInsert_storesLowercase(t, word) ==
    IF Len(word) = 0 THEN t
    ELSE LET normalizedWord == toLowerCase(word)
             nodes1 == insertWalk(t.nodes, normalizedWord)
         IN  IF ~nodes1[normalizedWord].isEndOfWord
             THEN [nodes |-> [nodes1 EXCEPT ![normalizedWord].isEndOfWord = TRUE,
                                            ![normalizedWord].value = normalizedWord],
                   size |-> t.size + 1]
             ELSE [t EXCEPT !.nodes = nodes1]

trieInsert(t, word) ==
    IF Len(word) = 0 THEN t
    ELSE LET normalizedWord == toLowerCase(word)
             nodes1 == insertWalk(t.nodes, normalizedWord)
         IN  IF ~nodes1[normalizedWord].isEndOfWord
             THEN [nodes |-> [nodes1 EXCEPT ![normalizedWord].isEndOfWord = TRUE,
                                            ![normalizedWord].value = word],
                   size |-> t.size + 1]
             ELSE [t EXCEPT !.nodes = nodes1]

\* findNode: the node at the end of prefix, or null
RECURSIVE findNodeFrom(_, _, _)
findNodeFrom(t, prefix, i) ==
    IF i > Len(prefix) THEN prefix
    ELSE IF prefix[i] \notin Range(t.nodes[SubSeq(prefix, 1, i - 1)].children) THEN NULL
    ELSE findNodeFrom(t, prefix, i + 1)

findNode(t, prefix) == findNodeFrom(t, prefix, 1)

trieSearch(t, word) ==
    IF Len(word) = 0 THEN FALSE
    ELSE LET node == findNode(t, toLowerCase(word))
         IN  node # NULL /\ t.nodes[node].isEndOfWord

trieStartsWith(t, prefix) ==
    IF Len(prefix) = 0 THEN TRUE
    ELSE findNode(t, toLowerCase(prefix)) # NULL

\* a stored value is truthy when it is a non-empty string
Truthy(value) == value # UNDEFINED /\ value # <<>>

RECURSIVE dfsCollect(_, _, _, _)
RECURSIVE dfsChildren(_, _, _, _, _)
dfsCollect(t, node, results, limit) ==
    IF Len(results) >= limit THEN results
    ELSE dfsChildren(t, node, 1, results, limit)

\* the for-loop of dfsCollect from the i-th child on
dfsChildren(t, node, i, results, limit) ==
    IF i > Len(t.nodes[node].children) THEN results
    ELSE LET childNode == Append(node, t.nodes[node].children[i])
             push == t.nodes[childNode].isEndOfWord /\ Truthy(t.nodes[childNode].value)
             r1 == IF push THEN Append(results, t.nodes[childNode].value) ELSE results
         IN  IF push /\ Len(r1) >= limit THEN r1
             ELSE LET r2 == dfsCollect(t, childNode, r1, limit)
                  IN  IF Len(r2) >= limit THEN r2
                      ELSE dfsChildren(t, node, i + 1, r2, limit)

\* (variant: the word at the prefix node itself is not emitted)
autocomplete_skipsPrefixWord(t, prefix, limit) ==
    IF Len(prefix) = 0 THEN <<>>
    ELSE LET normalizedPrefix == toLowerCase(prefix)
             startNode == findNode(t, normalizedPrefix)
         IN  IF startNode = NULL THEN <<>>
             ELSE dfsCollect(t, startNode, <<>>, limit)

autocomplete(t, prefix, limit) ==
    IF Len(prefix) = 0 THEN <<>>
    ELSE LET normalizedPrefix == toLowerCase(prefix)
             startNode == findNode(t, normalizedPrefix)
         IN  IF startNode = NULL THEN <<>>
             ELSE LET results == IF t.nodes[startNode].isEndOfWord
                                    /\ Truthy(t.nodes[startNode].value)
                                 THEN <<t.nodes[startNode].value>>
                                 ELSE <<>>
                  IN  dfsCollect(t, startNode, results, limit)

\* the limit getAllWords passes: no number of results reaches it
Infinity == 1000000

getAllWords(t) == dfsCollect(t, <<>>, <<>>, Infinity)

getSize(t) == t.size

\* clear: a new root and size 0
trieClear(t) == TrieNew

\* Map.delete(char) on node.children; the dropped subtree is unreachable
dropChild(nodes, node, char) ==
    LET child == Append(node, char)
        gone == {p \in DOMAIN nodes : strStartsWith(p, child)}
    IN  [p \in (DOMAIN nodes) \ gone |->
            IF p = node
            THEN [nodes[p] EXCEPT !.children = SelectSeq(@, LAMBDA x : x # char)]
            ELSE nodes[p]]

\* (variant: a node left without children is dropped even when it ends a word)
RECURSIVE deleteHelper_dropsWordNode(_, _, _, _)
deleteHelper_dropsWordNode(nodes, node, word, index) ==
    IF index = Len(word)
    THEN [nodes |-> nodes, del |-> Len(nodes[node].children) = 0]
    ELSE LET char == word[index + 1]
         IN  IF char \notin Range(nodes[node].children)
             THEN [nodes |-> nodes, del |-> FALSE]
             ELSE LET r == deleteHelper_dropsWordNode(nodes, Append(node, char),
                                                      word, index + 1)
                  IN  IF r.del
                      THEN LET nodes2 == dropChild(r.nodes, node, char)
                           IN  [nodes |-> nodes2,
                                del |-> Len(nodes2[node].children) = 0]
                      ELSE [nodes |-> r.nodes, del |-> FALSE]

\* (variant: only the node of the word is dropped, never a node above it)
RECURSIVE deleteHelper_leafOnly(_, _, _, _)
deleteHelper_leafOnly(nodes, node, word, index) ==
    IF index = Len(word)
    THEN [nodes |-> nodes, del |-> Len(nodes[node].children) = 0]
    ELSE LET char == word[index + 1]
         IN  IF char \notin Range(nodes[node].children)
             THEN [nodes |-> nodes, del |-> FALSE]
             ELSE LET r == deleteHelper_leafOnly(nodes, Append(node, char), word, index + 1)
                  IN  IF r.del
                      THEN [nodes |-> dropChild(r.nodes, node, char), del |-> FALSE]
                      ELSE [nodes |-> r.nodes, del |-> FALSE]

\* deleteHelper: the nodes after the cleanup and the returned flag
RECURSIVE deleteHelper(_, _, _, _)
deleteHelper(nodes, node, word, index) ==
    IF index = Len(word)
    THEN [nodes |-> nodes, del |-> Len(nodes[node].children) = 0]
    ELSE LET char == word[index + 1]
         IN  IF char \notin Range(nodes[node].children)
             THEN [nodes |-> nodes, del |-> FALSE]
             ELSE LET r == deleteHelper(nodes, Append(node, char), word, index + 1)
                  IN  IF r.del
                      THEN LET nodes2 == dropChild(r.nodes, node, char)
                           IN  [nodes |-> nodes2,
                                del |-> Len(nodes2[node].children) = 0
                                        /\ ~nodes2[node].isEndOfWord]
                      ELSE [nodes |-> r.nodes, del |-> FALSE]

\* (variant: a node on the path is enough, terminal or not)
trieDeleteResult_anyNode(t, word) ==
    IF Len(word) = 0 THEN FALSE
    ELSE findNode(t, toLowerCase(word)) # NULL

\* delete: whether the word is stored (the returned flag)
trieDeleteResult(t, word) ==
    IF Len(word) = 0 THEN FALSE
    ELSE LET node == findNode(t, toLowerCase(word))
         IN  node # NULL /\ t.nodes[node].isEndOfWord

\* delete: the state after the call
trieDelete(t, word) ==
    IF ~trieDeleteResult(t, word) THEN t
    ELSE LET normalizedWord == toLowerCase(word)
             nodes1 == [t.nodes EXCEPT ![normalizedWord].isEndOfWord = FALSE,
                                       ![normalizedWord].value = UNDEFINED]
         IN  [nodes |-> deleteHelper(nodes1, <<>>, normalizedWord, 0).nodes,
              size |-> t.size - 1]

TrieIdle == [op |-> "none", arg |-> <<>>, limit |-> 0, result |-> NULL]

TrieInit ==
    /\ trie = TrieNew
    /\ trieWords = {}
    /\ trieOut = TrieIdle

TrieInsert(w) ==
    /\ trieOut = TrieIdle
    /\ trie.size < MaxWords
    /\ trie' = trieInsert(trie, w)
    /\ trieWords' = IF Len(w) = 0 THEN trieWords ELSE trieWords \cup {toLowerCase(w)}
    /\ trieOut' = [op |-> "insert", arg |-> w, limit |-> 0, result |-> NULL]

TrieSearch(w) ==
    /\ trieOut = TrieIdle
    /\ trie' = trie
    /\ trieWords' = trieWords
    /\ trieOut' = [op |-> "search", arg |-> w, limit |-> 0, result |-> trieSearch(trie, w)]

TrieAutocomplete(prefix, limit) ==
    /\ trieOut = TrieIdle
    /\ trie' = trie
    /\ trieWords' = trieWords
    /\ trieOut' = [op |-> "autocomplete", arg |-> prefix, limit |-> limit,
                   result |-> autocomplete(trie, prefix, limit)]

TrieDelete(w) ==
    /\ trieOut = TrieIdle
    /\ trie' = trieDelete(trie, w)
    /\ trieWords' = trieWords \ {toLowerCase(w)}
    /\ trieOut' = [op |-> "delete", arg |-> w, limit |-> 0,
                   result |-> trieDeleteResult(trie, w)]

\* the caller takes the result and is ready for the next call
TrieReturn ==
    /\ trieOut # TrieIdle
    /\ trieOut' = TrieIdle
    /\ UNCHANGED <<trie, trieWords>>


TrieStartsWith(w) ==
    /\ trieOut = TrieIdle
    /\ trie' = trie
    /\ trieWords' = trieWords
    /\ trieOut' = [op |-> "startsWith", arg |-> w, limit |-> 0,
                   result |-> trieStartsWith(trie, w)]

TrieGetSize ==
    /\ trieOut = TrieIdle
    /\ trie' = trie
    /\ trieWords' = trieWords
    /\ trieOut' = [op |-> "getSize", arg |-> <<>>, limit |-> 0, result |-> getSize(trie)]

TrieGetAllWords ==
    /\ trieOut = TrieIdle
    /\ trie' = trie
    /\ trieWords' = trieWords
    /\ trieOut' = [op |-> "getAllWords", arg |-> <<>>, limit |-> 0,
                   result |-> getAllWords(trie)]

TrieClear ==
    /\ trieOut = TrieIdle
    /\ trie' = trieClear(trie)
    /\ trieWords' = {}
    /\ trieOut' = [op |-> "clear", arg |-> <<>>, limit |-> 0, result |-> NULL]
(***************************************************************************)
(* CaseStudyMigration: legacy case -> CaseStudyEnhanced                    *)
(***************************************************************************)
\* Array.prototype.some over a list of phrases
someIncluded(text, phrases) == \E i \in 1..Len(phrases) : includes(text, phrases[i])

inferEvidenceValue(type) ==
    LET highValue == <<<<"m","e","m","o","r","y"," ","d","u","m","p">>, <<"p","c","a","p">>, <<"d","i","s","k"," ","i","m","a","g","e">>, <<"r","e","g","i","s","t","r","y"," ","h","i","v","e">>, <<"e","d","r"," ","a","l","e","r","t","s">>>>
        mediumValue == <<<<"l","o","g","s">>, <<"e","m","a","i","l">>, <<"b","r","o","w","s","e","r"," ","h","i","s","t","o","r","y">>, <<"u","s","b"," ","h","i","s","t","o","r","y">>>>
        normalized == toLowerCase(type)
    IN  IF someIncluded(normalized, highValue) THEN <<"h","i","g","h">>
        ELSE IF someIncluded(normalized, mediumValue) THEN <<"m","e","d","i","u","m">>
        ELSE <<"l","o","w">>

inferSignificance(action) ==
    LET critical == <<<<"i","s","o","l","a","t","e">>, <<"p","r","e","s","e","r","v","e">>, <<"i","m","a","g","e">>, <<"m","e","m","o","r","y"," ","d","u","m","p">>, <<"i","n","i","t","i","a","l"," ","c","o","m","p","r","o","m","i","s","e">>>>
        major == <<<<"a","n","a","l","y","z","e">>, <<"i","d","e","n","t","i","f","y">>, <<"r","e","c","o","n","s","t","r","u","c","t">>, <<"l","a","t","e","r","a","l"," ","m","o","v","e","m","e","n","t">>>>
        normalized == toLowerCase(action)
    IN  IF someIncluded(normalized, critical) THEN <<"c","r","i","t","i","c","a","l">>
        ELSE IF someIncluded(normalized, major) THEN <<"m","a","j","o","r">>
        ELSE <<"m","i","n","o","r">>

\* workflow.find(w => w.tool === tool): index of the first such step, 0 if none
findStep(tool, workflow) ==
    IF \E i \in 1..Len(workflow) : workflow[i].tool = tool
    THEN CHOOSE i \in 1..Len(workflow) :
            workflow[i].tool = tool /\ \A j \in 1..(i - 1) : workflow[j].tool # tool
    ELSE 0

extractToolPurpose(tool, workflow) ==
    LET i == findStep(tool, workflow)
    IN  IF i # 0 THEN substring0(workflow[i].action, 100) ELSE <<"A","n","a","l","y","s","i","s">>

extractToolOutput(tool, workflow) ==
    LET i == findStep(tool, workflow)
    IN  IF i # 0 THEN substring0(workflow[i].expectedResult, 150) ELSE <<"N","/","A">>

classifyFinding(outcome) ==
    LET normalized == toLowerCase(outcome)
    IN  IF someIncluded(normalized, <<<<"v","e","c","t","o","r">>, <<"e","n","t","r","y">>, <<"p","h","i","s","h","i","n","g">>>>) THEN <<"a","t","t","a","c","k","_","v","e","c","t","o","r">>
        ELSE IF someIncluded(normalized, <<<<"l","a","t","e","r","a","l">>, <<"m","o","v","e","m","e","n","t">>, <<"p","r","o","p","a","g","a","t">>>>)
             THEN <<"l","a","t","e","r","a","l","_","m","o","v","e","m","e","n","t">>
        ELSE IF someIncluded(normalized, <<<<"p","e","r","s","i","s","t","e","n","c","e">>, <<"s","c","h","e","d","u","l","e","d">>, <<"s","t","a","r","t","u","p">>>>)
             THEN <<"p","e","r","s","i","s","t","e","n","c","e">>
        ELSE IF someIncluded(normalized, <<<<"e","x","f","i","l","t","r","a","t">>, <<"s","t","e","a","l">>, <<"t","r","a","n","s","f","e","r">>>>)
             THEN <<"e","x","f","i","l","t","r","a","t","i","o","n">>
        ELSE IF someIncluded(normalized, <<<<"e","n","c","r","y","p","t">>, <<"r","a","n","s","o","m">>, <<"d","a","m","a","g","e">>>>) THEN <<"i","m","p","a","c","t">>
        ELSE IF someIncluded(normalized, <<<<"a","p","t">>, <<"a","c","t","o","r">>, <<"g","r","o","u","p">>>>) THEN <<"a","t","t","r","i","b","u","t","i","o","n">>
        ELSE <<"e","v","i","d","e","n","c","e">>

extractRelevantArtifacts(outcome, artifacts) ==
    LET hit == SelectSeq(artifacts,
                   LAMBDA art : includes(toLowerCase(outcome), toLowerCase(art.type)))
    IN  slice0([i \in 1..Len(hit) |-> hit[i].artifact_id], 3)

generateLessons(legacy) ==
    LET technical ==
            IF \E i \in 1..Len(legacy.workflow) :
                   includes(legacy.workflow[i].tool, <<"F","T","K">>)
                   \/ includes(legacy.workflow[i].tool, <<"V","o","l","a","t","i","l","i","t","y">>)
            THEN <<[lesson_id |-> legacy.id \o <<"_","l","e","s","s","o","n","_","1">>,
                    category |-> <<"t","e","c","h","n","i","c","a","l">>,
                    description |-> <<"M","e","m","o","r","y"," ","a","n","d"," ","d","i","s","k"," ","f","o","r","e","n","s",
      "i","c","s"," ","c","r","i","t","i","c","a","l"," ","f","o","r"," ","a","t","t","a","c",
      "k"," ","r","e","c","o","n","s","t","r","u","c","t","i","o","n">>,
                    best_practice |-> <<"A","l","w","a","y","s"," ","p","r","e","s","e","r","v","e"," ","v","o","l","a","t","i",
      "l","e"," ","m","e","m","o","r","y"," ","b","e","f","o","r","e"," ","s","h","u","t","d",
      "o","w","n">>]>>
            ELSE <<>>
        procedural ==
            IF \E i \in 1..Len(legacy.workflow) :
                   includes(toLowerCase(legacy.workflow[i].action), <<"h","a","s","h">>)
                   \/ includes(toLowerCase(legacy.workflow[i].action), <<"c","h","a","i","n">>)
            THEN <<[lesson_id |-> legacy.id \o <<"_","l","e","s","s","o","n","_","2">>,
                    category |-> <<"p","r","o","c","e","d","u","r","a","l">>,
                    description |-> <<"E","v","i","d","e","n","c","e"," ","i","n","t","e","g","r","i","t","y"," ","m","a","i",
      "n","t","a","i","n","e","d"," ","t","h","r","o","u","g","h"," ","p","r","o","p","e","r",
      " ","c","h","a","i","n"," ","o","f"," ","c","u","s","t","o","d","y">>,
                    best_practice |-> <<"D","o","c","u","m","e","n","t"," ","h","a","s","h"," ","v","a","l","u","e","s"," ","a",
      "n","d"," ","m","a","i","n","t","a","i","n"," ","d","e","t","a","i","l","e","d"," ","c",
      "u","s","t","o","d","y"," ","l","o","g","s">>]>>
            ELSE <<>>
        legal ==
            IF Len(legacy.legalNotes) > 0
            THEN <<[lesson_id |-> legacy.id \o <<"_","l","e","s","s","o","n","_","3">>,
                    category |-> <<"l","e","g","a","l">>,
                    description |-> <<"C","o","m","p","l","i","a","n","c","e"," ","r","e","q","u","i","r","e","m","e","n","t",
      "s"," ","i","m","p","a","c","t"," ","i","n","v","e","s","t","i","g","a","t","i","o","n",
      " ","s","c","o","p","e">>,
                    best_practice |-> <<"C","o","o","r","d","i","n","a","t","e"," ","w","i","t","h"," ","l","e","g","a","l"," ",
      "t","e","a","m"," ","b","e","f","o","r","e"," ","e","v","i","d","e","n","c","e"," ","c",
      "o","l","l","e","c","t","i","o","n">>]>>
            ELSE <<>>
    IN  technical \o procedural \o legal

\* the maximal runs of \w characters of s, in order
RECURSIVE wordRuns(_)
wordRuns(s) ==
    IF \A i \in 1..Len(s) : ~IsWordChar(s[i]) THEN <<>>
    ELSE LET i == CHOOSE i \in 1..Len(s) :
                     IsWordChar(s[i]) /\ \A j \in 1..(i - 1) : ~IsWordChar(s[j])
             k == CHOOSE k \in i..Len(s) :
                     /\ \A j \in i..k : IsWordChar(s[j])
                     /\ (k = Len(s) \/ ~IsWordChar(s[k + 1]))
         IN  <<SubSeq(s, i, k)>> \o wordRuns(SubSeq(s, k + 1, Len(s)))

\* scenario.toLowerCase().match(/\b\w{4,}\b/g) || []
matchLongWords(s) == SelectSeq(wordRuns(s), LAMBDA w : Len(w) >= 4)

\* extractKeywords of the migration: a Set in insertion order, cut to 20
extractKeywords(legacy) ==
    LET fromId == splitChar(legacy.id, "-")
        typeWords == Concat([i \in 1..Len(legacy.artifacts) |->
                        LET ws == SelectSeq(splitChar(legacy.artifacts[i].type, " "),
                                            LAMBDA word : Len(word) > 3)
                        IN  [j \in 1..Len(ws) |-> toLowerCase(ws[j])]])
        fromTools == [i \in 1..Len(legacy.workflow) |-> toLowerCase(legacy.workflow[i].tool)]
        scenarioWords == matchLongWords(toLowerCase(legacy.scenario))
    IN  slice0(dedupe(fromId \o typeWords \o fromTools \o slice0(scenarioWords, 10)), 20)

classifyIncidentType(id, scenario) ==
    LET normalized == toLowerCase(id \o <<" ">> \o scenario)
    IN  IF includes(normalized, <<"r","a","n","s","o","m">>) THEN <<"R","a","n","s","o","m","w","a","r","e">>
        ELSE IF includes(normalized, <<"i","n","s","i","d","e","r">>) THEN <<"I","n","s","i","d","e","r"," ","T","h","r","e","a","t">>
        ELSE IF includes(normalized, <<"a","p","t">>) \/ includes(normalized, <<"a","d","v","a","n","c","e","d">>) THEN <<"A","P","T">>
        ELSE IF includes(normalized, <<"b","r","e","a","c","h">>) \/ includes(normalized, <<"e","x","f","i","l","t","r","a","t">>)
             THEN <<"D","a","t","a"," ","B","r","e","a","c","h">>
        ELSE IF includes(normalized, <<"m","a","l","w","a","r","e">>) THEN <<"M","a","l","w","a","r","e">>
        ELSE IF includes(normalized, <<"d","d","o","s">>) THEN <<"D","D","o","S">>
        ELSE IF includes(normalized, <<"m","o","b","i","l","e">>) THEN <<"M","o","b","i","l","e">>
        ELSE <<"I","n","c","i","d","e","n","t">>

inferIndustry(scenario) ==
    LET normalized == toLowerCase(scenario)
    IN  IF someIncluded(normalized, <<<<"h","e","a","l","t","h","c","a","r","e">>, <<"h","o","s","p","i","t","a","l">>, <<"p","a","t","i","e","n","t">>>>) THEN <<"H","e","a","l","t","h","c","a","r","e">>
        ELSE IF someIncluded(normalized, <<<<"f","i","n","a","n","c","i","a","l">>, <<"b","a","n","k">>>>) THEN <<"F","i","n","a","n","c","e">>
        ELSE IF someIncluded(normalized, <<<<"r","e","t","a","i","l">>, <<"c","u","s","t","o","m","e","r">>>>) THEN <<"R","e","t","a","i","l">>
        ELSE IF includes(normalized, <<"g","o","v","e","r","n","m","e","n","t">>) THEN <<"G","o","v","e","r","n","m","e","n","t">>
        ELSE <<"T","e","c","h","n","o","l","o","g","y">>

inferSeverity(scenario, outcomes) ==
    LET text == toLowerCase(scenario \o <<" ">> \o join(outcomes, <<" ">>))
    IN  IF someIncluded(text, <<<<"e","n","c","r","y","p","t">>, <<"b","r","e","a","c","h">>, <<"e","x","f","i","l","t","r","a","t">>>>) THEN <<"c","r","i","t","i","c","a","l">>
        ELSE IF someIncluded(text, <<<<"c","o","m","p","r","o","m","i","s","e">>, <<"a","c","c","e","s","s">>>>) THEN <<"h","i","g","h">>
        ELSE <<"m","e","d","i","u","m">>

generateTitle(id) ==
    LET words == splitChar(id, "-")
    IN  join([i \in 1..Len(words) |->
                IF Len(words[i]) = 0 THEN <<>>
                ELSE <<toUpperCaseChar(words[i][1])>> \o Tail(words[i])], <<" ">>)

\* (variant: the ids are numbered from 0)
migrateLegacyCase_idsFromZero(legacy) ==
    LET artifacts == [idx \in 1..Len(legacy.artifacts) |->
            [artifact_id |-> legacy.id \o <<"_","a","r","t","i","f","a","c","t","_">> \o numToString(idx - 1),
             type |-> legacy.artifacts[idx].type,
             description |-> legacy.artifacts[idx].description,
             location |-> legacy.artifacts[idx].location,
             evidence_value |-> inferEvidenceValue(legacy.artifacts[idx].type)]]
        timeline == [idx \in 1..Len(legacy.workflow) |->
            [timestamp |-> <<"S","t","e","p"," ">> \o numToString(legacy.workflow[idx].step),
             event |-> legacy.workflow[idx].action,
             tool |-> legacy.workflow[idx].tool,
             artifact_id |-> IF idx <= Len(artifacts) THEN artifacts[idx].artifact_id
                             ELSE UNDEFINED,
             significance |-> inferSignificance(legacy.workflow[idx].action)]]
        tools == dedupe([i \in 1..Len(legacy.workflow) |-> legacy.workflow[i].tool])
        toolsUsed == [i \in 1..Len(tools) |->
            [tool_name |-> tools[i],
             purpose |-> extractToolPurpose(tools[i], legacy.workflow),
             output_summary |-> extractToolOutput(tools[i], legacy.workflow)]]
        findings == [idx \in 1..Len(legacy.outcomes) |->
            [finding_id |-> legacy.id \o <<"_","f","i","n","d","i","n","g","_">> \o numToString(idx - 1),
             category |-> classifyFinding(legacy.outcomes[idx]),
             description |-> legacy.outcomes[idx],
             supporting_artifacts |-> extractRelevantArtifacts(legacy.outcomes[idx], artifacts)]]
    IN  [case_id |-> legacy.id,
         title |-> generateTitle(legacy.id),
         summary |-> substring0(legacy.scenario, 200),
         scenario |-> legacy.scenario,
         industry |-> inferIndustry(legacy.scenario),
         incident_type |-> classifyIncidentType(legacy.id, legacy.scenario),
         severity |-> inferSeverity(legacy.scenario, legacy.outcomes),
         timeline |-> timeline,
         artifacts |-> artifacts,
         tools_used |-> toolsUsed,
         findings |-> findings,
         conclusions |-> slice0(legacy.outcomes, 3),
         lessons_learned |-> generateLessons(legacy),
         legal_notes |-> legacy.legalNotes,
         keywords |-> extractKeywords(legacy)]

\* (variant: one tools_used entry for every workflow step)
migrateLegacyCase_toolPerStep(legacy) ==
    LET artifacts == [idx \in 1..Len(legacy.artifacts) |->
            [artifact_id |-> legacy.id \o <<"_","a","r","t","i","f","a","c","t","_">> \o numToString(idx),
             type |-> legacy.artifacts[idx].type,
             description |-> legacy.artifacts[idx].description,
             location |-> legacy.artifacts[idx].location,
             evidence_value |-> inferEvidenceValue(legacy.artifacts[idx].type)]]
        timeline == [idx \in 1..Len(legacy.workflow) |->
            [timestamp |-> <<"S","t","e","p"," ">> \o numToString(legacy.workflow[idx].step),
             event |-> legacy.workflow[idx].action,
             tool |-> legacy.workflow[idx].tool,
             artifact_id |-> IF idx <= Len(artifacts) THEN artifacts[idx].artifact_id
                             ELSE UNDEFINED,
             significance |-> inferSignificance(legacy.workflow[idx].action)]]
        tools == [i \in 1..Len(legacy.workflow) |-> legacy.workflow[i].tool]
        toolsUsed == [i \in 1..Len(tools) |->
            [tool_name |-> tools[i],
             purpose |-> extractToolPurpose(tools[i], legacy.workflow),
             output_summary |-> extractToolOutput(tools[i], legacy.workflow)]]
        findings == [idx \in 1..Len(legacy.outcomes) |->
            [finding_id |-> legacy.id \o <<"_","f","i","n","d","i","n","g","_">> \o numToString(idx),
             category |-> classifyFinding(legacy.outcomes[idx]),
             description |-> legacy.outcomes[idx],
             supporting_artifacts |-> extractRelevantArtifacts(legacy.outcomes[idx], artifacts)]]
    IN  [case_id |-> legacy.id,
         title |-> generateTitle(legacy.id),
         summary |-> substring0(legacy.scenario, 200),
         scenario |-> legacy.scenario,
         industry |-> inferIndustry(legacy.scenario),
         incident_type |-> classifyIncidentType(legacy.id, legacy.scenario),
         severity |-> inferSeverity(legacy.scenario, legacy.outcomes),
         timeline |-> timeline,
         artifacts |-> artifacts,
         tools_used |-> toolsUsed,
         findings |-> findings,
         conclusions |-> slice0(legacy.outcomes, 3),
         lessons_learned |-> generateLessons(legacy),
         legal_notes |-> legacy.legalNotes,
         keywords |-> extractKeywords(legacy)]

migrateLegacyCase(legacy) ==
    LET artifacts == [idx \in 1..Len(legacy.artifacts) |->
            [artifact_id |-> legacy.id \o <<"_","a","r","t","i","f","a","c","t","_">> \o numToString(idx),
             type |-> legacy.artifacts[idx].type,
             description |-> legacy.artifacts[idx].description,
             location |-> legacy.artifacts[idx].location,
             evidence_value |-> inferEvidenceValue(legacy.artifacts[idx].type)]]
        timeline == [idx \in 1..Len(legacy.workflow) |->
            [timestamp |-> <<"S","t","e","p"," ">> \o numToString(legacy.workflow[idx].step),
             event |-> legacy.workflow[idx].action,
             tool |-> legacy.workflow[idx].tool,
             artifact_id |-> IF idx <= Len(artifacts) THEN artifacts[idx].artifact_id
                             ELSE UNDEFINED,
             significance |-> inferSignificance(legacy.workflow[idx].action)]]
        tools == dedupe([i \in 1..Len(legacy.workflow) |-> legacy.workflow[i].tool])
        toolsUsed == [i \in 1..Len(tools) |->
            [tool_name |-> tools[i],
             purpose |-> extractToolPurpose(tools[i], legacy.workflow),
             output_summary |-> extractToolOutput(tools[i], legacy.workflow)]]
        findings == [idx \in 1..Len(legacy.outcomes) |->
            [finding_id |-> legacy.id \o <<"_","f","i","n","d","i","n","g","_">> \o numToString(idx),
             category |-> classifyFinding(legacy.outcomes[idx]),
             description |-> legacy.outcomes[idx],
             supporting_artifacts |-> extractRelevantArtifacts(legacy.outcomes[idx], artifacts)]]
    IN  [case_id |-> legacy.id,
         title |-> generateTitle(legacy.id),
         summary |-> substring0(legacy.scenario, 200),
         scenario |-> legacy.scenario,
         industry |-> inferIndustry(legacy.scenario),
         incident_type |-> classifyIncidentType(legacy.id, legacy.scenario),
         severity |-> inferSeverity(legacy.scenario, legacy.outcomes),
         timeline |-> timeline,
         artifacts |-> artifacts,
         tools_used |-> toolsUsed,
         findings |-> findings,
         conclusions |-> slice0(legacy.outcomes, 3),
         lessons_learned |-> generateLessons(legacy),
         legal_notes |-> legacy.legalNotes,
         keywords |-> extractKeywords(legacy)]

(***************************************************************************)
(* CaseStudyIngestionService                                               *)
(***************************************************************************)
\* A JS Map (or Set) iterates in insertion order: a list of [k, v] entries
OMapHas(m, k) == \E i \in 1..Len(m) : m[i].k = k

OMapGet(m, k) == m[CHOOSE i \in 1..Len(m) : m[i].k = k].v

OMapSet(m, k, v) ==
    IF OMapHas(m, k)
    THEN LET i == CHOOSE i \in 1..Len(m) : m[i].k = k
         IN  SubSeq(m, 1, i - 1) \o <<[k |-> k, v |-> v]>> \o SubSeq(m, i + 1, Len(m))
    ELSE Append(m, [k |-> k, v |-> v])

OMapKeys(m) == [i \in 1..Len(m) |-> m[i].k]

\* Set.add
SetAdd(s, x) == IF x \in Range(s) THEN s ELSE Append(s, x)

\* xs.forEach(x => s.add(x)) on a Set s
SetAddAll(s, xs) == dedupe(s \o xs)

\* weights and scores are kept in hundredths (1.0 = 100)
INGESTION_RULES ==
    << [field |-> <<"c","a","s","e","_","i","d">>, weight |-> 100, indexed |-> TRUE, trie_indexed |-> TRUE],
       [field |-> <<"t","i","t","l","e">>, weight |-> 95, indexed |-> TRUE, trie_indexed |-> TRUE],
       [field |-> <<"s","u","m","m","a","r","y">>, weight |-> 85, indexed |-> TRUE, trie_indexed |-> FALSE],
       [field |-> <<"i","n","c","i","d","e","n","t","_","t","y","p","e">>, weight |-> 90, indexed |-> TRUE, trie_indexed |-> TRUE],
       [field |-> <<"i","n","d","u","s","t","r","y">>, weight |-> 50, indexed |-> TRUE, trie_indexed |-> FALSE],
       [field |-> <<"k","e","y","w","o","r","d","s">>, weight |-> 80, indexed |-> TRUE, trie_indexed |-> TRUE],
       [field |-> <<"a","r","t","i","f","a","c","t","s",".","t","y","p","e">>, weight |-> 75, indexed |-> TRUE, trie_indexed |-> TRUE],
       [field |-> <<"f","i","n","d","i","n","g","s",".","c","a","t","e","g","o","r","y">>, weight |-> 70, indexed |-> TRUE, trie_indexed |-> FALSE],
       [field |-> <<"t","o","o","l","s","_","u","s","e","d",".","t","o","o","l","_","n","a","m","e">>, weight |-> 65, indexed |-> TRUE, trie_indexed |-> TRUE],
       [field |-> <<"l","e","s","s","o","n","s","_","l","e","a","r","n","e","d",".","c","a","t","e","g","o",
      "r","y">>, weight |-> 50, indexed |-> TRUE,
        trie_indexed |-> FALSE] >>

DefaultTermWeight == 50
ArtifactBonus == 30
FindingBonus == 25

\* getNestedValue(caseStudy, field) as the list of string values it yields;
\* for a path through an array, filter(Boolean) drops the empty strings
getNestedValue(caseStudy, field) ==
    LET nonEmpty(a) == SelectSeq(a, LAMBDA v : Len(v) > 0)
    IN  CASE field = <<"c","a","s","e","_","i","d">> -> <<caseStudy.case_id>>
          [] field = <<"t","i","t","l","e">> -> <<caseStudy.title>>
          [] field = <<"s","u","m","m","a","r","y">> -> <<caseStudy.summary>>
          [] field = <<"i","n","c","i","d","e","n","t","_","t","y","p","e">> -> <<caseStudy.incident_type>>
          [] field = <<"i","n","d","u","s","t","r","y">> -> <<caseStudy.industry>>
          [] field = <<"k","e","y","w","o","r","d","s">> -> caseStudy.keywords
          [] field = <<"a","r","t","i","f","a","c","t","s",".","t","y","p","e">> ->
                nonEmpty([i \in 1..Len(caseStudy.artifacts) |-> caseStudy.artifacts[i].type])
          [] field = <<"f","i","n","d","i","n","g","s",".","c","a","t","e","g","o","r","y">> ->
                nonEmpty([i \in 1..Len(caseStudy.findings) |-> caseStudy.findings[i].category])
          [] field = <<"t","o","o","l","s","_","u","s","e","d",".","t","o","o","l","_","n","a","m","e">> ->
                nonEmpty([i \in 1..Len(caseStudy.tools_used) |->
                              caseStudy.tools_used[i].tool_name])
          [] field = <<"l","e","s","s","o","n","s","_","l","e","a","r","n","e","d",".","c","a","t","e","g","o",
      "r","y">> ->
                nonEmpty([i \in 1..Len(caseStudy.lessons_learned) |->
                              caseStudy.lessons_learned[i].category])
          [] OTHER -> <<>>

\* extractKeywords of the ingestion: the per-case keyword Set after the rules
ruleKeywords(caseStudy, keywords) ==
    SetAddAll(keywords,
        Concat([r \in 1..Len(INGESTION_RULES) |->
            IF ~INGESTION_RULES[r].indexed THEN <<>>
            ELSE LET value == getNestedValue(caseStudy, INGESTION_RULES[r].field)
                 IN  [i \in 1..Len(value) |-> toLowerCase(value[i])]]))

\* insert a list of words into a trie, in order
RECURSIVE trieInsertAll(_, _)
trieInsertAll(t, ws) ==
    IF Len(ws) = 0 THEN t ELSE trieInsert(trieInsertAll(t, Front(ws)), ws[Len(ws)])

\* the loop over caseStudy.keywords that fills the global keyword index:
\* new keywords are appended in order, caseId joins the Set of each keyword
indexKeywords(keywordIndex, kws, caseId) ==
    LET normalized == [i \in 1..Len(kws) |-> toLowerCase(kws[i])]
        keys == dedupe(OMapKeys(keywordIndex) \o normalized)
    IN  [n \in 1..Len(keys) |->
            LET old == IF OMapHas(keywordIndex, keys[n])
                       THEN OMapGet(keywordIndex, keys[n]) ELSE <<>>
            IN  [k |-> keys[n],
                 v |-> IF keys[n] \in Range(normalized) THEN SetAdd(old, caseId) ELSE old]]

\* new CaseStudyIngestionService()
IngestionNew ==
    [indexedCases |-> <<>>, keywordIndex |-> <<>>,
     artifactTrie |-> TrieNew, toolTrie |-> TrieNew, caseTrie |-> TrieNew]

\* ks.forEach((k, i) => m.set(k, vs[i]))
RECURSIVE OMapFromList(_, _, _)
OMapFromList(m, ks, vs) ==
    IF Len(ks) = 0 THEN m
    ELSE OMapSet(OMapFromList(m, Front(ks), Front(vs)), ks[Len(ks)], vs[Len(vs)])

ingestCase(ing, caseStudy) ==
    LET arts == caseStudy.artifacts
        finds == caseStudy.findings
        tools == caseStudy.tools_used
        artTypes == [i \in 1..Len(arts) |-> toLowerCase(arts[i].type)]
        toolNames == [i \in 1..Len(tools) |-> toLowerCase(tools[i].tool_name)]
        kw0 == ruleKeywords(caseStudy, <<>>)
        kw1 == SetAddAll(kw0, artTypes)
        kw2 == SetAddAll(kw1, [i \in 1..Len(finds) |-> finds[i].category])
        kw3 == SetAddAll(kw2, toolNames)
        kw4 == SetAddAll(kw3, <<toLowerCase(caseStudy.case_id),
                                toLowerCase(caseStudy.incident_type)>>)
        keywords == SetAddAll(kw4, [i \in 1..Len(caseStudy.keywords) |->
                                       toLowerCase(caseStudy.keywords[i])])
        artifact_map == OMapFromList(<<>>, [i \in 1..Len(arts) |-> arts[i].artifact_id], arts)
        finding_map == OMapFromList(<<>>, [i \in 1..Len(finds) |-> finds[i].finding_id], finds)
        tool_names == SetAddAll(<<>>, [i \in 1..Len(tools) |-> tools[i].tool_name])
    IN  [indexedCases |-> OMapSet(ing.indexedCases, caseStudy.case_id,
                             [case |-> caseStudy, keywords |-> keywords,
                              artifact_map |-> artifact_map, finding_map |-> finding_map,
                              tool_names |-> tool_names]),
         keywordIndex |-> indexKeywords(ing.keywordIndex, caseStudy.keywords,
                                        caseStudy.case_id),
         artifactTrie |-> trieInsertAll(ing.artifactTrie, artTypes),
         toolTrie |-> trieInsertAll(ing.toolTrie, toolNames),
         caseTrie |-> trieInsertAll(ing.caseTrie, <<toLowerCase(caseStudy.case_id),
                                                    toLowerCase(caseStudy.title)>>)]

RECURSIVE ingestCases(_, _)
ingestCases(ing, cases) ==
    IF Len(cases) = 0 THEN ing
    ELSE ingestCase(ingestCases(ing, Front(cases)), cases[Len(cases)])

\* (variant: tokens of every length are kept)
tokenize_noLengthFilter(query) ==
    LET kept == SelectSeq(toLowerCase(query),
                          LAMBDA ch : IsWordChar(ch) \/ IsSpaceChar(ch) \/ ch = "-")
    IN  splitSpaces(kept)

\* tokenize: lowercase, drop what is not \w, \s or '-', split on \s+, keep length > 2
tokenize(query) ==
    LET kept == SelectSeq(toLowerCase(query),
                          LAMBDA ch : IsWordChar(ch) \/ IsSpaceChar(ch) \/ ch = "-")
    IN  SelectSeq(splitSpaces(kept), LAMBDA term : Len(term) > 2)

\* (variant: the last rule whose field name contains the term)
calculateTermWeight_lastRule(term) ==
    IF \E r \in 1..Len(INGESTION_RULES) : includes(INGESTION_RULES[r].field, term)
    THEN INGESTION_RULES[CHOOSE r \in 1..Len(INGESTION_RULES) :
            /\ includes(INGESTION_RULES[r].field, term)
            /\ \A q \in (r + 1)..Len(INGESTION_RULES) :
                   ~includes(INGESTION_RULES[q].field, term)].weight
    ELSE DefaultTermWeight

\* calculateTermWeight: the first rule whose field name contains the term
calculateTermWeight(term) ==
    IF \E r \in 1..Len(INGESTION_RULES) : includes(INGESTION_RULES[r].field, term)
    THEN INGESTION_RULES[CHOOSE r \in 1..Len(INGESTION_RULES) :
            /\ includes(INGESTION_RULES[r].field, term)
            /\ \A q \in 1..(r - 1) : ~includes(INGESTION_RULES[q].field, term)].weight
    ELSE DefaultTermWeight

\* the body of matchingCaseIds.forEach for one term and one case
scoreCase(ing, results, term, caseId) ==
    LET r0 == IF OMapHas(results, caseId) THEN OMapGet(results, caseId)
              ELSE [case_id |-> caseId, relevance_score |-> 0, matched_keywords |-> <<>>,
                    matched_artifacts |-> <<>>, matched_findings |-> <<>>]
        indexedCase == OMapGet(ing.indexedCases, caseId)
        artHits == SelectSeq(indexedCase.artifact_map,
                      LAMBDA e : includes(toLowerCase(e.v.type), term)
                                 \/ includes(toLowerCase(e.v.description), term))
        findHits == SelectSeq(indexedCase.finding_map,
                      LAMBDA e : includes(toLowerCase(e.v.description), term))
    IN  OMapSet(results, caseId,
           [case_id |-> caseId,
            relevance_score |-> r0.relevance_score + calculateTermWeight(term)
                                + ArtifactBonus * Len(artHits) + FindingBonus * Len(findHits),
            matched_keywords |-> Append(r0.matched_keywords, term),
            matched_artifacts |-> r0.matched_artifacts \o OMapKeys(artHits),
            matched_findings |-> r0.matched_findings \o OMapKeys(findHits)])

RECURSIVE scoreCases(_, _, _, _)
scoreCases(ing, results, term, caseIds) ==
    IF Len(caseIds) = 0 THEN results
    ELSE scoreCase(ing, scoreCases(ing, results, term, Front(caseIds)), term,
                   caseIds[Len(caseIds)])

RECURSIVE scoreTerms(_, _, _)
scoreTerms(ing, results, terms) ==
    IF Len(terms) = 0 THEN results
    ELSE LET term == terms[Len(terms)]
             matchingCaseIds == IF OMapHas(ing.keywordIndex, term)
                                THEN OMapGet(ing.keywordIndex, term) ELSE <<>>
         IN  scoreCases(ing, scoreTerms(ing, results, Front(terms)), term, matchingCaseIds)

\* (variant: a result goes before the earlier results of the same score)
RECURSIVE sortByScore_tiesReversed(_)
sortByScore_tiesReversed(a) ==
    IF Len(a) <= 1 THEN a
    ELSE LET init == sortByScore_tiesReversed(SubSeq(a, 1, Len(a) - 1))
             x == a[Len(a)]
             n == Cardinality({i \in 1..Len(init) : init[i].relevance_score > x.relevance_score})
         IN  SubSeq(init, 1, n) \o <<x>> \o SubSeq(init, n + 1, Len(init))

\* Array.prototype.sort((a, b) => b.relevance_score - a.relevance_score), stable
RECURSIVE sortByScore(_)
sortByScore(a) ==
    IF Len(a) <= 1 THEN a
    ELSE LET init == sortByScore(SubSeq(a, 1, Len(a) - 1))
             x == a[Len(a)]
             n == Cardinality({i \in 1..Len(init) : init[i].relevance_score >= x.relevance_score})
         IN  SubSeq(init, 1, n) \o <<x>> \o SubSeq(init, n + 1, Len(init))

search(ing, query, limit) ==
    LET results == scoreTerms(ing, <<>>, tokenize(query))
    IN  slice0(sortByScore([i \in 1..Len(results) |-> results[i].v]), limit)

\* (variant: a two-part citation is accepted once its case is known)
validateCitation_caseOnly(ing, citation) ==
    LET parts == splitChar(citation, ":")
    IN  IF Len(parts) = 1 THEN OMapHas(ing.indexedCases, parts[1])
        ELSE IF Len(parts) = 2 THEN OMapHas(ing.indexedCases, parts[1])
        ELSE FALSE

\* validateCitation of the ingestion service
validateCitation(ing, citation) ==
    LET parts == splitChar(citation, ":")
    IN  IF Len(parts) = 1 THEN OMapHas(ing.indexedCases, parts[1])
        ELSE IF Len(parts) = 2
             THEN /\ OMapHas(ing.indexedCases, parts[1])
                  /\ LET indexed == OMapGet(ing.indexedCases, parts[1])
                     IN  OMapHas(indexed.artifact_map, parts[2])
                         \/ OMapHas(indexed.finding_map, parts[2])
        ELSE FALSE

SuggestionsPerTrie == 3
MaxSuggestions == 8

\* getAutocompleteSuggestions: up to three words of each trie, cut to eight
getAutocompleteSuggestions(ing, partial) ==
    slice0(autocomplete(ing.caseTrie, toLowerCase(partial), SuggestionsPerTrie)
           \o autocomplete(ing.artifactTrie, toLowerCase(partial), SuggestionsPerTrie)
           \o autocomplete(ing.toolTrie, toLowerCase(partial), SuggestionsPerTrie),
           MaxSuggestions)

\* the reduce of getStats: the sizes of one map of every indexed case, summed
RECURSIVE sumSizes(_, _)
sumSizes(indexedCases, field) ==
    IF Len(indexedCases) = 0 THEN 0
    ELSE sumSizes(Front(indexedCases), field)
         + Len(indexedCases[Len(indexedCases)].v[field])

\* getStats of the ingestion service
ingestionGetStats(ing) ==
    [total_cases |-> Len(ing.indexedCases),
     total_keywords |-> Len(ing.keywordIndex),
     total_artifacts |-> sumSizes(ing.indexedCases, "artifact_map"),
     total_findings |-> sumSizes(ing.indexedCases, "finding_map"),
     unique_tools |-> Len(dedupe(Concat([i \in 1..Len(ing.indexedCases) |->
                                            ing.indexedCases[i].v.tool_names])))]

getAllCaseIds_firstOnly(ing) == SubSeq(OMapKeys(ing.indexedCases), 1, 1)

getAllCaseIds(ing) == OMapKeys(ing.indexedCases)

(***************************************************************************)
(* PromptTemplates and CaseStudyRAGService                                 *)
(***************************************************************************)
walkthroughKeywords ==
    <<<<"h","o","w"," ","d","o"," ","i">>, <<"s","t","e","p"," ","b","y"," ","s","t","e","p">>, <<"g","u","i","d","e"," ","m","e">>, <<"w","a","l","k","t","h","r","o","u","g","h">>,
      <<"i","n","v","e","s","t","i","g","a","t","e">>, <<"w","h","a","t"," ","s","t","e","p","s">>, <<"p","r","o","c","e","d","u","r","e">>, <<"p","r","o","c","e","s","s">>>>

teachingKeywords ==
    <<<<"e","x","p","l","a","i","n">>, <<"w","h","a","t"," ","i","s">>, <<"h","o","w"," ","d","o","e","s">>, <<"t","e","a","c","h"," ","m","e">>,
      <<"l","e","a","r","n"," ","a","b","o","u","t">>, <<"u","n","d","e","r","s","t","a","n","d">>, <<"c","o","n","c","e","p","t">>, <<"w","h","y">>>>

\* (variant: the teaching phrases are tried first)
detectPromptMode_teachingFirst(query) ==
    LET normalized == toLowerCase(query)
    IN  IF someIncluded(normalized, teachingKeywords) THEN "teaching"
        ELSE IF someIncluded(normalized, walkthroughKeywords) THEN "guided_walkthrough"
        ELSE "direct_qa"

detectPromptMode(query) ==
    LET normalized == toLowerCase(query)
    IN  IF someIncluded(normalized, walkthroughKeywords) THEN "guided_walkthrough"
        ELSE IF someIncluded(normalized, teachingKeywords) THEN "teaching"
        ELSE "direct_qa"

allowedGeneral == <<<<"h","e","l","l","o">>, <<"h","i">>, <<"h","e","l","p">>, <<"w","h","a","t"," ","c","a","n"," ","y","o","u">>, <<"w","h","o"," ","a","r","e"," ","y","o","u">>>>

forensicKeywords ==
    <<<<"f","o","r","e","n","s","i","c">>, <<"i","n","v","e","s","t","i","g","a","t","i","o","n">>, <<"c","a","s","e">>, <<"a","r","t","i","f","a","c","t">>, <<"e","v","i","d","e","n","c","e">>,
      <<"m","a","l","w","a","r","e">>, <<"r","a","n","s","o","m","w","a","r","e">>, <<"b","r","e","a","c","h">>, <<"i","n","c","i","d","e","n","t">>, <<"a","n","a","l","y","s","i","s">>,
      <<"t","o","o","l">>, <<"a","u","t","o","p","s","y">>, <<"v","o","l","a","t","i","l","i","t","y">>, <<"w","i","r","e","s","h","a","r","k">>, <<"m","e","m","o","r","y">>,
      <<"d","i","s","k">>, <<"r","e","g","i","s","t","r","y">>, <<"l","o","g">>, <<"t","i","m","e","l","i","n","e">>, <<"h","a","s","h">>, <<"m","f","t">>,
      <<"n","t","f","s">>, <<"f","i","l","e"," ","s","y","s","t","e","m">>, <<"n","e","t","w","o","r","k">>, <<"p","a","c","k","e","t">>, <<"p","c","a","p">>>>

\* (variant: greetings and help are not let through)
isForensicQuery_noGreetings(query) ==
    LET normalized == toLowerCase(query)
    IN  someIncluded(normalized, forensicKeywords)

isForensicQuery(query) ==
    LET normalized == toLowerCase(query)
    IN  IF someIncluded(normalized, allowedGeneral) THEN TRUE
        ELSE someIncluded(normalized, forensicKeywords)

REFUSAL_NON_FORENSIC ==
    <<"I"," ","a","p","o","l","o","g","i","z","e",","," ","b","u","t"," ","I"," ","s","p","e",
      "c","i","a","l","i","z","e"," ","e","x","c","l","u","s","i","v","e","l","y"," ","i","n",
      " ","d","i","g","i","t","a","l"," ","f","o","r","e","n","s","i","c","s"," ","c","a","s",
      "e"," ","s","t","u","d","y"," ","a","n","a","l","y","s","i","s"," ","a","n","d"," ","i",
      "n","v","e","s","t","i","g","a","t","i","o","n"," ","t","e","c","h","n","i","q","u","e",
      "s","."," ","I"," ","c","a","n"," ","o","n","l","y"," ","a","s","s","i","s","t"," ","w",
      "i","t","h",":","\n","\n","U+2022"," ","F","o","r","e","n","s","i","c"," ","c","a","s","e"," ",
      "s","t","u","d","y"," ","q","u","e","s","t","i","o","n","s","\n","U+2022"," ","I","n","v","e",
      "s","t","i","g","a","t","i","o","n"," ","m","e","t","h","o","d","o","l","o","g","i","e",
      "s","\n","U+2022"," ","E","v","i","d","e","n","c","e"," ","a","n","a","l","y","s","i","s"," ",
      "t","e","c","h","n","i","q","u","e","s","\n","U+2022"," ","T","o","o","l"," ","u","s","a","g",
      "e"," ","i","n"," ","f","o","r","e","n","s","i","c"," ","c","o","n","t","e","x","t","s",
      "\n","U+2022"," ","F","o","r","e","n","s","i","c"," ","c","o","n","c","e","p","t","s"," ","a",
      "n","d"," ","t","e","r","m","i","n","o","l","o","g","y","\n","\n","P","l","e","a","s","e",
      " ","a","s","k"," ","a"," ","q","u","e","s","t","i","o","n"," ","r","e","l","a","t","e",
      "d"," ","t","o"," ","d","i","g","i","t","a","l"," ","f","o","r","e","n","s","i","c","s",
      " ","c","a","s","e"," ","s","t","u","d","i","e","s"," ","o","r"," ","i","n","v","e","s",
      "t","i","g","a","t","i","o","n"," ","p","r","o","c","e","d","u","r","e","s",".">>

\* REFUSAL_TEMPLATES.INSUFFICIENT_CONTEXT with {{available_cases}} replaced
insufficientContext(availableCases) ==
    <<"I"," ","d","o","n","'","t"," ","h","a","v","e"," ","e","n","o","u","g","h"," ","i","n",
      "f","o","r","m","a","t","i","o","n"," ","i","n"," ","t","h","e"," ","c","u","r","r","e",
      "n","t"," ","c","a","s","e"," ","s","t","u","d","y"," ","k","n","o","w","l","e","d","g",
      "e"," ","b","a","s","e"," ","t","o"," ","a","n","s","w","e","r"," ","t","h","a","t"," ",
      "q","u","e","s","t","i","o","n"," ","a","c","c","u","r","a","t","e","l","y","."," ","\n",
      "\n","T","h","e"," ","a","v","a","i","l","a","b","l","e"," ","c","a","s","e"," ","s","t",
      "u","d","i","e","s"," ","c","o","v","e","r",":","\n">>
    \o availableCases \o
    <<"\n","\n","W","o","u","l","d"," ","y","o","u"," ","l","i","k","e"," ","t","o",":","\n","U+2022",
      " ","R","e","p","h","r","a","s","e"," ","y","o","u","r"," ","q","u","e","s","t","i","o",
      "n"," ","t","o"," ","m","a","t","c","h"," ","a","v","a","i","l","a","b","l","e"," ","c",
      "a","s","e","s","?","\n","U+2022"," ","A","s","k"," ","a","b","o","u","t"," ","g","e","n","e",
      "r","a","l"," ","f","o","r","e","n","s","i","c"," ","m","e","t","h","o","d","o","l","o",
      "g","y","?","\n","U+2022"," ","E","x","p","l","o","r","e"," ","a"," ","r","e","l","a","t","e",
      "d"," ","t","o","p","i","c"," ","f","r","o","m"," ","t","h","e"," ","c","a","s","e"," ",
      "s","t","u","d","i","e","s","?">>

\* extractCitations: every match of /\[([^\]]+)\]/g with its brackets removed
RECURSIVE extractCitations(_)
extractCitations(text) ==
    LET closeAfter(i) == CHOOSE j \in (i + 1)..Len(text) :
                             text[j] = "]" /\ \A m \in (i + 1)..(j - 1) : text[m] # "]"
        matchesAt(i) == /\ text[i] = "["
                        /\ \E j \in (i + 2)..Len(text) : text[j] = "]"
                        /\ text[i + 1] # "]"
    IN  IF \A i \in 1..Len(text) : ~matchesAt(i) THEN <<>>
        ELSE LET i == CHOOSE i \in 1..Len(text) :
                         matchesAt(i) /\ \A m \in 1..(i - 1) : ~matchesAt(m)
                 j == closeAfter(i)
             IN  <<SelectSeq(SubSeq(text, i + 1, j - 1), LAMBDA ch : ch # "[" /\ ch # "]")>>
                 \o extractCitations(SubSeq(text, j + 1, Len(text)))

\* value || fallback for an optional string
orElse(value, fallback) == IF Truthy(value) THEN value ELSE fallback

\* `${value}` for an optional string
interpolate(value) == IF value = UNDEFINED THEN <<"u","n","d","e","f","i","n","e","d">> ELSE value

first(a) == IF Len(a) > 0 THEN a[1] ELSE UNDEFINED

\* whether generateDirectQA throws a TypeError
generateDirectQAThrows(query, cases) ==
    LET q == toLowerCase(query)
    IN  \/ Len(cases) = 0
        \/ /\ includes(q, <<"w","h","a","t"," ","t","o","o","l">>) \/ includes(q, <<"w","h","i","c","h"," ","t","o","o","l">>)
           /\ Len(cases[1].tools_used) = 0
        \/ /\ ~(includes(q, <<"w","h","a","t"," ","t","o","o","l">>) \/ includes(q, <<"w","h","i","c","h"," ","t","o","o","l">>))
           /\ includes(q, <<"a","r","t","i","f","a","c","t">>)
           /\ Len(cases[1].artifacts) = 0

generateDirectQA(query, cases) ==
    LET firstCase == cases[1]
        q == toLowerCase(query)
    IN  IF includes(q, <<"w","h","a","t"," ","t","o","o","l">>) \/ includes(q, <<"w","h","i","c","h"," ","t","o","o","l">>)
        THEN LET tools == slice0([i \in 1..Len(firstCase.tools_used) |->
                                     firstCase.tools_used[i].tool_name], 3)
             IN  <<"T","h","e"," ","i","n","v","e","s","t","i","g","a","t","i","o","n"," ","u","s","e","d",
      ":"," ">> \o join(tools, <<","," ">>) \o <<" ","[">>
                 \o firstCase.case_id \o <<"]",".","\n","\n">>
                 \o <<"F","o","r"," ","e","x","a","m","p","l","e",","," ">> \o tools[1] \o <<" ","w","a","s"," ","u","s","e","d"," ","t","o"," ">>
                 \o firstCase.tools_used[1].purpose \o <<" ">>
                 \o <<"[">> \o firstCase.case_id \o <<":">>
                 \o orElse(IF Len(firstCase.artifacts) > 0
                           THEN firstCase.artifacts[1].artifact_id ELSE UNDEFINED,
                           <<"a","r","t","i","f","a","c","t","_","1">>)
                 \o <<"]",".">>
        ELSE IF includes(q, <<"a","r","t","i","f","a","c","t">>)
        THEN LET artifacts == slice0(firstCase.artifacts, 3)
             IN  <<"K","e","y"," ","a","r","t","i","f","a","c","t","s"," ","a","n","a","l","y","z","e","d",
      ":","\n">>
                 \o join([i \in 1..Len(artifacts) |->
                            <<"U+2022"," ","*","*">> \o artifacts[i].type \o <<"*","*"," ","[">> \o firstCase.case_id
                            \o <<":">> \o artifacts[i].artifact_id \o <<"]",":"," ">>
                            \o artifacts[i].description], <<"\n">>)
                 \o <<"\n","\n","T","h","e","s","e"," ","a","r","t","i","f","a","c","t","s"," ","p","r","o","v",
      "i","d","e","d"," ">> \o artifacts[1].evidence_value
                 \o <<" ","e","v","i","d","e","n","c","e"," ","v","a","l","u","e"," ","f","o","r"," ","t","h",
      "e"," ","i","n","v","e","s","t","i","g","a","t","i","o","n",".">>
        ELSE IF includes(q, <<"t","i","m","e","l","i","n","e">>) \/ includes(q, <<"w","h","e","n">>)
        THEN LET events == slice0(firstCase.timeline, 3)
             IN  <<"*","*","T","i","m","e","l","i","n","e"," ","o","f"," ","E","v","e","n","t","s","*","*",
      " ","[">> \o firstCase.case_id \o <<"]",":","\n">>
                 \o join([i \in 1..Len(events) |->
                            <<"U+2022"," ">> \o events[i].timestamp \o <<":"," ">> \o events[i].event
                            \o <<" ","[","T","o","o","l",":"," ">> \o orElse(events[i].tool, <<"N","/","A">>) \o <<"]">>], <<"\n">>)
        ELSE <<"*","*">> \o firstCase.title \o <<"*","*"," ","[">> \o firstCase.case_id \o <<"]","\n","\n">>
             \o firstCase.summary \o <<"\n","\n">>
             \o <<"*","*","I","n","c","i","d","e","n","t"," ","T","y","p","e","*","*",":"," ">> \o firstCase.incident_type \o <<" ","(">>
             \o firstCase.severity \o <<" ","s","e","v","e","r","i","t","y",")","\n">>
             \o <<"*","*","K","e","y"," ","F","i","n","d","i","n","g","*","*",":"," ">>
             \o interpolate(orElse(IF Len(firstCase.findings) > 0
                                   THEN firstCase.findings[1].description ELSE UNDEFINED,
                                   first(firstCase.conclusions)))
             \o <<" ">>
             \o <<"[">> \o firstCase.case_id \o <<":">>
             \o orElse(IF Len(firstCase.findings) > 0
                       THEN firstCase.findings[1].finding_id ELSE UNDEFINED, <<"f","i","n","d","i","n","g","_","1">>)
             \o <<"]">>

generateWalkthroughThrows(cases) == Len(cases) = 0

generateWalkthrough(cases) ==
    LET firstCase == cases[1]
        events == slice0(firstCase.timeline, 3)
        step(idx) ==
            LET event == events[idx]
                found == SelectSeq(firstCase.artifacts,
                                   LAMBDA a : a.artifact_id = event.artifact_id)
            IN  <<"*","*","S","t","e","p"," ">> \o numToString(idx) \o <<":"," ">> \o event.event \o <<"*","*","\n">>
                \o <<"-"," ","*","*","T","o","o","l","*","*",":"," ">> \o orElse(event.tool, <<"M","a","n","u","a","l"," ","a","n","a","l","y","s","i","s">>) \o <<"\n">>
                \o (IF Len(found) > 0
                    THEN <<"-"," ","*","*","A","r","t","i","f","a","c","t","*","*",":"," ">> \o found[1].type \o <<" ","[">> \o firstCase.case_id
                         \o <<":">> \o found[1].artifact_id \o <<"]","\n">>
                         \o <<"-"," ","*","*","L","o","c","a","t","i","o","n","*","*",":"," ">> \o found[1].location \o <<"\n">>
                    ELSE <<>>)
                \o <<"-"," ","*","*","S","i","g","n","i","f","i","c","a","n","c","e","*","*",":"," ">> \o event.significance \o <<"\n","\n">>
    IN  <<"*","*","I","n","v","e","s","t","i","g","a","t","i","o","n"," ","W","a","l","k","t","h",
      "r","o","u","g","h",":"," ">> \o firstCase.title \o <<"*","*","\n","\n">>
        \o Concat([idx \in 1..Len(events) |-> step(idx)])
        \o <<"\n","*","C","i","t","e",":"," ","[">> \o firstCase.case_id \o <<":","w","o","r","k","f","l","o","w","]","*","\n","\n">>
        \o <<"*","*","N","e","x","t"," ","S","t","e","p","s","*","*",":"," ","C","o","n","t","i","n",
      "u","e"," ","a","n","a","l","y","z","i","n","g"," ","r","e","m","a","i","n","i","n","g",
      " ","a","r","t","i","f","a","c","t","s"," ","o","r"," ","a","s","k"," ","a","b","o","u",
      "t"," ","s","p","e","c","i","f","i","c"," ","t","o","o","l","s"," ","u","s","e","d",".">>

generateTeachingThrows(query, cases) ==
    LET normalized == toLowerCase(query)
    IN  \/ Len(cases) = 0
        \/ /\ includes(normalized, <<"a","r","t","i","f","a","c","t">>) \/ includes(normalized, <<"e","v","i","d","e","n","c","e">>)
           /\ Len(cases[1].artifacts) = 0

generateTeaching(query, cases) ==
    LET firstCase == cases[1]
        normalized == toLowerCase(query)
        head0 == <<"*","*","F","o","r","e","n","s","i","c"," ","C","o","n","c","e","p","t",":"," ","I","l",
      "l","u","s","t","r","a","t","e","d"," ","b","y"," ">> \o firstCase.title \o <<"*","*","\n","\n">>
    IN  IF includes(normalized, <<"a","r","t","i","f","a","c","t">>) \/ includes(normalized, <<"e","v","i","d","e","n","c","e">>)
        THEN LET artifact == firstCase.artifacts[1]
             IN  head0 \o <<"*","*","U","n","d","e","r","s","t","a","n","d","i","n","g"," ","F","o","r","e","n","s",
      "i","c"," ","A","r","t","i","f","a","c","t","s","*","*","\n","\n">>
                 \o <<"A","r","t","i","f","a","c","t","s"," ","a","r","e"," ","d","i","g","i","t","a","l"," ",
      "t","r","a","c","e","s"," ","l","e","f","t"," ","b","y"," ","s","y","s","t","e","m"," ",
      "a","c","t","i","v","i","t","y","."," ","F","o","r"," ","e","x","a","m","p","l","e",":",
      "\n","\n">>
                 \o <<"*","*">> \o artifact.type \o <<"*","*"," ","[">> \o firstCase.case_id \o <<":">>
                 \o artifact.artifact_id \o <<"]","\n">>
                 \o <<"-"," ","*","*","W","h","a","t"," ","i","t"," ","i","s","*","*",":"," ">> \o artifact.description \o <<"\n">>
                 \o <<"-"," ","*","*","W","h","e","r","e"," ","f","o","u","n","d","*","*",":"," ">> \o artifact.location \o <<"\n">>
                 \o <<"-"," ","*","*","E","v","i","d","e","n","c","e"," ","v","a","l","u","e","*","*",":"," ">> \o artifact.evidence_value \o <<"\n","\n">>
                 \o <<"I","n"," ","t","h","i","s"," ","c","a","s","e",","," ","t","h","i","s"," ","a","r","t",
      "i","f","a","c","t"," ","w","a","s"," ">>
                 \o (IF artifact.evidence_value = <<"h","i","g","h">> THEN <<"c","r","i","t","i","c","a","l">> ELSE <<"i","m","p","o","r","t","a","n","t">>)
                 \o <<" ">>
                 \o <<"f","o","r"," ","e","s","t","a","b","l","i","s","h","i","n","g"," ","t","h","e"," ","i",
      "n","v","e","s","t","i","g","a","t","i","o","n"," ","t","i","m","e","l","i","n","e",".">>
        ELSE IF includes(normalized, <<"t","i","m","e","l","i","n","e">>) \/ includes(normalized, <<"s","e","q","u","e","n","c","e">>)
        THEN LET events == slice0(firstCase.timeline, 3)
             IN  head0 \o <<"*","*","T","i","m","e","l","i","n","e"," ","A","n","a","l","y","s","i","s"," ","i","n",
      " ","F","o","r","e","n","s","i","c","s","*","*","\n","\n">>
                 \o <<"T","i","m","e","l","i","n","e"," ","r","e","c","o","n","s","t","r","u","c","t","i","o",
      "n"," ","h","e","l","p","s"," ","i","n","v","e","s","t","i","g","a","t","o","r","s"," ",
      "u","n","d","e","r","s","t","a","n","d"," ","t","h","e"," ","s","e","q","u","e","n","c",
      "e"," ","o","f"," ","e","v","e","n","t","s","."," ">>
                 \o <<"I","n"," ","[">> \o firstCase.case_id \o <<"]",","," ","t","h","e"," ","t","i","m","e","l","i","n","e"," ","r","e","v","e","a","l",
      "e","d",":","\n","\n">>
                 \o Concat([i \in 1..Len(events) |->
                       <<"U+2022"," ">> \o events[i].timestamp \o <<":"," ">> \o events[i].event \o <<"\n">>])
                 \o <<"\n","T","h","i","s"," ","s","e","q","u","e","n","t","i","a","l"," ","a","n","a","l","y",
      "s","i","s"," ","i","d","e","n","t","i","f","i","e","d"," ","t","h","e"," ","a","t","t",
      "a","c","k"," ","p","r","o","g","r","e","s","s","i","o","n"," ","a","n","d"," ","a","t",
      "t","r","i","b","u","t","i","o","n",".">>
        ELSE LET lessons == slice0(firstCase.lessons_learned, 3)
             IN  head0 \o <<"*","*","C","a","s","e"," ","O","v","e","r","v","i","e","w","*","*",":"," ">> \o firstCase.summary \o <<"\n","\n">>
                 \o <<"*","*","K","e","y"," ","L","e","a","r","n","i","n","g"," ","P","o","i","n","t","s","*",
      "*",":","\n">>
                 \o Concat([i \in 1..Len(lessons) |->
                       <<"\n","*","*">> \o toUpperCase(lessons[i].category) \o <<"*","*",":"," ">>
                       \o lessons[i].description \o <<"\n">>
                       \o <<"*","B","e","s","t"," ","P","r","a","c","t","i","c","e","*",":"," ">> \o lessons[i].best_practice \o <<"\n">>])

generateResponseThrows(query, mode, cases) ==
    CASE mode = "direct_qa" -> generateDirectQAThrows(query, cases)
      [] mode = "guided_walkthrough" -> generateWalkthroughThrows(cases)
      [] mode = "teaching" -> generateTeachingThrows(query, cases)

generateResponse(query, mode, cases) ==
    CASE mode = "direct_qa" -> generateDirectQA(query, cases)
      [] mode = "guided_walkthrough" -> generateWalkthrough(cases)
      [] mode = "teaching" -> generateTeaching(query, cases)

\* confidences are kept in hundredths (0.8 = 80)
\* validateCitation of the prompt templates: one, two or three parts of
\* [\w-]+ joined by colons
validateCitationFormat(citation) ==
    LET parts == splitChar(citation, ":")
    IN  /\ Len(parts) \in 1..3
        /\ \A i \in 1..Len(parts) :
              /\ Len(parts[i]) > 0
              /\ \A j \in 1..Len(parts[i]) : IsWordChar(parts[i][j]) \/ parts[i][j] = "-"

ParsedCitationConfidence == 80
DefaultConfidence == 50

parseCitation(citationStr) ==
    LET parts == splitChar(citationStr, ":")
    IN  [case_id |-> parts[1],
         artifact_id |-> IF Len(parts) >= 2 THEN parts[2] ELSE UNDEFINED,
         finding_id |-> IF Len(parts) >= 3 THEN parts[3] ELSE UNDEFINED,
         confidence |-> ParsedCitationConfidence]

\* (variant: the teaching list lost an entry)
generateFollowUps_shortTeaching(mode, cases) ==
    CASE mode = "direct_qa" ->
            <<<<"W","h","a","t"," ","t","o","o","l","s"," ","w","e","r","e"," ","u","s","e","d"," ","i",
      "n"," ">> \o cases[1].case_id \o <<"?">>,
              <<"S","h","o","w"," ","m","e"," ","t","h","e"," ","t","i","m","e","l","i","n","e"," ","f",
      "o","r"," ">> \o cases[1].case_id,
              <<"W","h","a","t"," ","w","e","r","e"," ","t","h","e"," ","k","e","y"," ","f","i","n","d",
      "i","n","g","s","?">>>>
      [] mode = "guided_walkthrough" ->
            <<<<"S","h","o","w"," ","m","e"," ","t","h","e"," ","n","e","x","t"," ","i","n","v","e","s",
      "t","i","g","a","t","i","o","n"," ","s","t","e","p","s">>,
              <<"H","o","w"," ","d","o"," ","I"," ","a","n","a","l","y","z","e"," ","s","i","m","i","l",
      "a","r"," ","a","r","t","i","f","a","c","t","s","?">>,
              <<"W","h","a","t"," ","t","o","o","l","s"," ","s","h","o","u","l","d"," ","I"," ","u","s",
      "e","?">>>>
      [] mode = "teaching" ->
            <<<<"E","x","p","l","a","i","n"," ","a","n","o","t","h","e","r"," ","f","o","r","e","n","s",
      "i","c"," ","c","o","n","c","e","p","t">>,
              <<"S","h","o","w"," ","m","e"," ","a"," ","p","r","a","c","t","i","c","a","l"," ","e","x",
      "a","m","p","l","e">>>>

generateFollowUps(mode, cases) ==
    CASE mode = "direct_qa" ->
            <<<<"W","h","a","t"," ","t","o","o","l","s"," ","w","e","r","e"," ","u","s","e","d"," ","i",
      "n"," ">> \o cases[1].case_id \o <<"?">>,
              <<"S","h","o","w"," ","m","e"," ","t","h","e"," ","t","i","m","e","l","i","n","e"," ","f",
      "o","r"," ">> \o cases[1].case_id,
              <<"W","h","a","t"," ","w","e","r","e"," ","t","h","e"," ","k","e","y"," ","f","i","n","d",
      "i","n","g","s","?">>>>
      [] mode = "guided_walkthrough" ->
            <<<<"S","h","o","w"," ","m","e"," ","t","h","e"," ","n","e","x","t"," ","i","n","v","e","s",
      "t","i","g","a","t","i","o","n"," ","s","t","e","p","s">>,
              <<"H","o","w"," ","d","o"," ","I"," ","a","n","a","l","y","z","e"," ","s","i","m","i","l",
      "a","r"," ","a","r","t","i","f","a","c","t","s","?">>,
              <<"W","h","a","t"," ","t","o","o","l","s"," ","s","h","o","u","l","d"," ","I"," ","u","s",
      "e","?">>>>
      [] mode = "teaching" ->
            <<<<"E","x","p","l","a","i","n"," ","a","n","o","t","h","e","r"," ","f","o","r","e","n","s",
      "i","c"," ","c","o","n","c","e","p","t">>,
              <<"S","h","o","w"," ","m","e"," ","a"," ","p","r","a","c","t","i","c","a","l"," ","e","x",
      "a","m","p","l","e">>,
              <<"W","h","a","t"," ","a","r","e"," ","t","h","e"," ","b","e","s","t"," ","p","r","a","c",
      "t","i","c","e","s","?">>>>

extractRelatedTopics(cases) ==
    slice0(SetAddAll(<<>>, Concat([i \in 1..Len(cases) |->
               <<cases[i].incident_type>> \o slice0(cases[i].keywords, 3)])), 5)

\* new CaseStudyRAGService() keeps an ingestion service and an empty Map
\* getStats of the service: the ingestion statistics and enhanced_cases
ragGetStats(svc) ==
    ingestionGetStats(svc.ingestionService)
    @@ ("enhanced_cases" :> Len(svc.enhancedCases))

RagNew == [ingestionService |-> IngestionNew, enhancedCases |-> <<>>]

initializeFromLegacy(svc, legacyCases) ==
    LET enhanced == [i \in 1..Len(legacyCases) |-> migrateLegacyCase(legacyCases[i])]
    IN  [ingestionService |-> ingestCases(svc.ingestionService, enhanced),
         enhancedCases |-> OMapFromList(svc.enhancedCases,
                              [i \in 1..Len(enhanced) |-> enhanced[i].case_id], enhanced)]

SearchLimit == 3

\* processQuery: threw = a TypeError left the method; searched = search() was called
processQuery(svc, query) ==
    IF ~isForensicQuery(query)
    THEN [threw |-> FALSE, searched |-> FALSE, detected |-> "none",
          value |-> [query |-> query, mode |-> "direct_qa",
                     answer |-> REFUSAL_NON_FORENSIC,
                     citations |-> <<>>, confidence |-> 0,
                     follow_up_suggestions |-> <<<<"S","h","o","w"," ","m","e"," ","a"," ","c","a","s","e"," ","s","t","u","d","y">>,
                                                 <<"E","x","p","l","a","i","n"," ","m","e","m","o","r","y"," ","f","o","r","e","n","s","i",
      "c","s">>,
                                                 <<"H","o","w"," ","t","o"," ","i","n","v","e","s","t","i","g","a","t","e"," ","r","a","n",
      "s","o","m","w","a","r","e","?">>>>,
                     related_topics |-> UNDEFINED]]
    ELSE
    LET mode == detectPromptMode(query)
        searchResults == search(svc.ingestionService, query, SearchLimit)
    IN  IF Len(searchResults) = 0
        THEN [threw |-> FALSE, searched |-> TRUE, detected |-> mode,
              value |-> [query |-> query, mode |-> mode,
                         answer |-> insufficientContext(
                             LET ids == getAllCaseIds(svc.ingestionService)
                             IN  join([i \in 1..Len(ids) |-> <<"U+2022"," ">> \o ids[i]], <<"\n">>)),
                         citations |-> <<>>, confidence |-> 0,
                         follow_up_suggestions |->
                             <<<<"T","e","l","l"," ","m","e"," ","a","b","o","u","t"," ","r","a","n","s","o","m","w","a",
      "r","e","-","i","n","v","e","s","t","i","g","a","t","i","o","n">>,
                               <<"W","h","a","t"," ","a","r","t","i","f","a","c","t","s"," ","a","r","e"," ","i","n"," ",
      "i","n","s","i","d","e","r","-","d","a","t","a","-","t","h","e","f","t"," ","c","a","s",
      "e","?">>,
                               <<"L","i","s","t"," ","a","l","l"," ","c","a","s","e"," ","s","t","u","d","i","e","s">>>>,
                         related_topics |-> UNDEFINED]]
        ELSE
        LET found == SelectSeq(searchResults,
                               LAMBDA r : OMapHas(svc.enhancedCases, r.case_id))
            relevantCases == [i \in 1..Len(found) |->
                                 OMapGet(svc.enhancedCases, found[i].case_id)]
            citations == [i \in 1..Len(searchResults) |->
                [case_id |-> searchResults[i].case_id,
                 artifact_id |-> first(searchResults[i].matched_artifacts),
                 finding_id |-> first(searchResults[i].matched_findings),
                 confidence |-> searchResults[i].relevance_score]]
        IN  IF generateResponseThrows(query, mode, relevantCases)
            THEN [threw |-> TRUE, searched |-> TRUE, detected |-> mode, value |-> NULL]
            ELSE
            LET answer == generateResponse(query, mode, relevantCases)
                answerCitations == extractCitations(answer)
                valid == SelectSeq(answerCitations,
                            LAMBDA cit : validateCitation(svc.ingestionService, cit))
                validatedCitations == [i \in 1..Len(valid) |-> parseCitation(valid[i])]
            IN  [threw |-> FALSE, searched |-> TRUE, detected |-> mode,
                 value |-> [query |-> query, mode |-> mode, answer |-> answer,
                            citations |-> IF Len(validatedCitations) > 0
                                          THEN validatedCitations ELSE citations,
                            confidence |-> IF searchResults[1].relevance_score # 0
                                           THEN searchResults[1].relevance_score
                                           ELSE DefaultConfidence,
                            follow_up_suggestions |-> generateFollowUps(mode, relevantCases),
                            related_topics |-> extractRelatedTopics(relevantCases)]]

(***************************************************************************)
(* ForensicKnowledgeService (services/forensicKnowledge.ts)                *)
(* Confidences are in hundredths.                                          *)
(***************************************************************************)
\* String.prototype.trim
RECURSIVE trimStart(_)
trimStart(s) ==
    IF Len(s) > 0 /\ IsSpaceChar(s[1]) THEN trimStart(Tail(s)) ELSE s

RECURSIVE trimEnd(_)
trimEnd(s) ==
    IF Len(s) > 0 /\ IsSpaceChar(s[Len(s)]) THEN trimEnd(Front(s)) ELSE s

trim(s) == trimEnd(trimStart(s))

\* JSON.stringify / JSON.parse of a QueryResult. The results hold strings,
\* finite numbers, null, arrays and plain objects without undefined members,
\* all of which the JSON text carries unchanged; the text is modelled as the
\* tagged value, which is a non-empty string to the caller.
JSONstringify(value) == <<"json", value>>

JSONparse(text) == text[2]

\* the capacity of the response cache
ResponseCacheCapacity == 100

\* the imported data files: tools.json, cases.json, topics.json, glossary.json
toolsData ==
    << [name |-> <<"A","u","t","o","p","s","y">>, category |-> <<"A","n","a","l","y","s","i","s">>, useCase |-> <<"D","i","s","k"," ","a","n","a","l","y","s","i","s">>,
        asset3D |-> NULL],
       [name |-> <<"V","o","l","a","t","i","l","i","t","y">>, category |-> <<"M","e","m","o","r","y">>, useCase |-> <<"R","A","M"," ","a","n","a","l","y","s","i","s">>,
        asset3D |-> NULL] >>

casesData ==
    << [id |-> <<"c","a","s","e","-","0","0","1">>, scenario |-> <<"R","a","n","s","o","m","w","a","r","e"," ","h","i","t"," ","t","h","e"," ","c","l","i",
      "n","i","c">>,
        artifacts |-> <<>>, workflow |-> <<>>, outcomes |-> <<>>, legalNotes |-> <<>>] >>

topicsData ==
    << [id |-> <<"n","t","f","s">>, title |-> <<"N","T","F","S">>, summary |-> <<"T","h","e"," ","W","i","n","d","o","w","s"," ","f","i","l","e"," ","s","y","s","t","e",
      "m">>,
        prerequisites |-> <<>>, difficulty |-> <<"b","e","g","i","n","n","e","r">>, keywords |-> <<<<"M","F","T">>>>,
        sections |-> <<>>] >>

glossaryData ==
    << [term |-> <<"H","a","s","h">>, definition |-> <<"A"," ","d","i","g","e","s","t"," ","o","f"," ","d","a","t","a">>, related |-> <<<<"M","D","5">>>>,
        category |-> <<"I","n","t","e","g","r","i","t","y">>] >>

\* topic titles and keywords in the order the constructor inserts them
RECURSIVE topicWords(_)
topicWords(ts) ==
    IF Len(ts) = 0 THEN <<>>
    ELSE topicWords(Front(ts)) \o <<toLowerCase(ts[Len(ts)].title)>>
         \o [i \in 1..Len(ts[Len(ts)].keywords) |-> toLowerCase(ts[Len(ts)].keywords[i])]

\* new ForensicKnowledgeService()
ForensicKnowledgeServiceNew ==
    [tools |-> toolsData, cases |-> casesData, topics |-> topicsData,
     glossary |-> glossaryData,
     toolsTrie |-> trieInsertAll(TrieNew,
                       [i \in 1..Len(toolsData) |-> toLowerCase(toolsData[i].name)]),
     glossaryTrie |-> trieInsertAll(TrieNew,
                       [i \in 1..Len(glossaryData) |-> toLowerCase(glossaryData[i].term)]),
     topicTrie |-> trieInsertAll(TrieNew, topicWords(topicsData)),
     responseCache |-> LRUCacheNew(ResponseCacheCapacity)]

toolKeywords == <<<<"t","o","o","l">>, <<"s","o","f","t","w","a","r","e">>, <<"p","r","o","g","r","a","m">>, <<"u","s","e">>, <<"h","o","w"," ","t","o"," ","u","s","e">>, <<"c","o","m","p","a","r","e">>>>

isToolQuery(svc, query) ==
    \/ someIncluded(query, toolKeywords)
    \/ \E i \in 1..Len(svc.tools) : includes(query, toLowerCase(svc.tools[i].name))

caseKeywords ==
    <<<<"c","a","s","e"," ","s","t","u","d","y">>, <<"c","a","s","e">>, <<"e","x","a","m","p","l","e">>, <<"i","n","v","e","s","t","i","g","a","t","i","o","n">>, <<"s","c","e","n","a","r","i","o">>, <<"b","r","e","a","c","h">>>>

isCaseQuery(svc, query) == someIncluded(query, caseKeywords)

topicKeywords ==
    <<<<"e","x","p","l","a","i","n">>, <<"w","h","a","t"," ","i","s">>, <<"h","o","w"," ","d","o","e","s">>, <<"l","e","a","r","n">>, <<"t","e","a","c","h">>, <<"u","n","d","e","r","s","t","a","n","d">>, <<"c","o","n","c","e","p","t">>>>

isTopicQuery(svc, query) ==
    \/ someIncluded(query, topicKeywords)
    \/ \E i \in 1..Len(svc.topics) : includes(query, toLowerCase(svc.topics[i].title))

glossaryKeywords == <<<<"d","e","f","i","n","e">>, <<"d","e","f","i","n","i","t","i","o","n">>, <<"w","h","a","t"," ","d","o","e","s">>, <<"m","e","a","n">>, <<"t","e","r","m">>>>

isGlossaryQuery(svc, query) ==
    \/ someIncluded(query, glossaryKeywords)
    \/ \E i \in 1..Len(svc.glossary) : includes(query, toLowerCase(svc.glossary[i].term))

greetings ==
    <<<<"h","e","l","l","o">>, <<"h","i">>, <<"h","e","y">>, <<"g","r","e","e","t","i","n","g","s">>, <<"g","o","o","d"," ","m","o","r","n","i","n","g">>, <<"g","o","o","d"," ","a","f","t","e","r","n","o","o","n">>,
      <<"g","o","o","d"," ","e","v","e","n","i","n","g">>>>

isGreeting(svc, query) == someIncluded(query, greetings)

helpKeywords == <<<<"h","e","l","p">>, <<"a","s","s","i","s","t">>, <<"s","u","p","p","o","r","t">>, <<"g","u","i","d","e">>, <<"c","a","n"," ","y","o","u">>, <<"h","o","w"," ","c","a","n">>>>

isHelpQuery(svc, query) == someIncluded(query, helpKeywords)

handleToolQuery(svc, query) ==
    LET mentioned == SelectSeq(svc.tools,
                         LAMBDA tool : includes(query, toLowerCase(tool.name)))
    IN  IF Len(mentioned) > 0
        THEN [type |-> "tool", data |-> mentioned[1], confidence |-> 90,
              suggestions |-> <<<<"S","h","o","w"," ","m","e"," ","a","n"," ","e","x","a","m","p","l","e"," ","o","f"," ">> \o mentioned[1].name,
                                <<"W","h","a","t"," ","a","r","e"," ","t","h","e"," ","p","r","o","s"," ","a","n","d"," ",
      "c","o","n","s","?">>,
                                <<"C","o","m","p","a","r","e"," ","w","i","t","h"," ","o","t","h","e","r"," ","t","o","o",
      "l","s">>>>]
        ELSE IF includes(query, <<"c","o","m","p","a","r","e">>) \/ includes(query, <<"v","s">>)
                \/ includes(query, <<"v","e","r","s","u","s">>)
        THEN [type |-> "tool",
              data |-> [message |-> <<"T","o","o","l"," ","c","o","m","p","a","r","i","s","o","n">>, tools |-> slice0(svc.tools, 3)],
              confidence |-> 70, suggestions |-> <<<<"T","e","l","l"," ","m","e"," ","a","b","o","u","t"," ","A","u","t","o","p","s","y">>, <<"W","h","a","t"," ","i","s"," ","F","T","K"," ","I","m","a","g","e","r","?">>, <<"E","x","p","l","a","i","n"," ","V","o","l","a","t","i","l","i","t","y">>>>]
        ELSE [type |-> "tool",
              data |-> [message |-> <<"H","e","r","e"," ","a","r","e"," ","s","o","m","e"," ","p","o","p","u","l","a","r"," ",
      "f","o","r","e","n","s","i","c"," ","t","o","o","l","s",":">>,
                        tools |-> [i \in 1..Len(slice0(svc.tools, 5)) |->
                                     [name |-> svc.tools[i].name,
                                      category |-> svc.tools[i].category,
                                      useCase |-> svc.tools[i].useCase]]],
              confidence |-> 60, suggestions |-> <<<<"T","e","l","l"," ","m","e"," ","a","b","o","u","t"," ","A","u","t","o","p","s","y">>, <<"W","h","a","t"," ","i","s"," ","W","i","r","e","s","h","a","r","k","?">>, <<"S","h","o","w"," ","m","e"," ","a","c","q","u","i","s","i","t","i","o","n"," ","t","o",
      "o","l","s">>>>]

handleCaseQuery(svc, query) ==
    LET mentioned == SelectSeq(svc.cases,
                         LAMBDA c : \/ includes(query, c.id)
                                    \/ includes(query, substring0(toLowerCase(c.scenario), 30)))
        ransomwareCase == SelectSeq(svc.cases,
                         LAMBDA c : includes(toLowerCase(c.scenario), <<"r","a","n","s","o","m","w","a","r","e">>))
    IN  IF Len(mentioned) > 0
        THEN [type |-> "case", data |-> mentioned[1], confidence |-> 90,
              suggestions |-> <<<<"S","h","o","w"," ","m","e"," ","a","n","o","t","h","e","r"," ","c","a","s","e"," ","s",
      "t","u","d","y">>, <<"W","h","a","t"," ","t","o","o","l","s"," ","w","e","r","e"," ","u","s","e","d","?">>, <<"E","x","p","l","a","i","n"," ","t","h","e"," ","i","n","v","e","s","t","i","g","a","t",
      "i","o","n"," ","w","o","r","k","f","l","o","w">>>>]
        ELSE IF includes(query, <<"r","a","n","s","o","m","w","a","r","e">>) /\ Len(ransomwareCase) > 0
        THEN [type |-> "case", data |-> ransomwareCase[1], confidence |-> 80,
              suggestions |-> <<<<"S","h","o","w"," ","m","e"," ","a","n","o","t","h","e","r"," ","c","a","s","e">>>>]
        ELSE [type |-> "case",
              data |-> [message |-> <<"H","e","r","e"," ","a","r","e"," ","s","o","m","e"," ","f","o","r","e","n","s","i","c",
      " ","c","a","s","e"," ","s","t","u","d","i","e","s",":">>,
                        cases |-> [i \in 1..Len(svc.cases) |->
                                     [id |-> svc.cases[i].id,
                                      scenario |-> substring0(svc.cases[i].scenario, 100)
                                                   \o <<".",".",".">>]]],
              confidence |-> 70, suggestions |-> <<<<"R","a","n","s","o","m","w","a","r","e"," ","i","n","v","e","s","t","i","g","a","t","i",
      "o","n">>, <<"I","n","s","i","d","e","r"," ","t","h","r","e","a","t"," ","c","a","s","e">>, <<"M","o","b","i","l","e"," ","f","o","r","e","n","s","i","c","s"," ","e","x","a","m","p",
      "l","e">>>>]

handleTopicQuery(svc, query) ==
    LET mentioned == SelectSeq(svc.topics,
                         LAMBDA topic : \/ includes(query, toLowerCase(topic.title))
                                        \/ \E i \in 1..Len(topic.keywords) :
                                               includes(query, toLowerCase(topic.keywords[i])))
    IN  IF Len(mentioned) > 0
        THEN [type |-> "topic", data |-> mentioned[1], confidence |-> 90,
              suggestions |-> <<<<"S","h","o","w"," ","m","e"," ","r","e","l","a","t","e","d"," ","t","o","p","i","c","s">>, <<"G","i","v","e"," ","m","e"," ","a","n"," ","e","x","a","m","p","l","e">>, <<"W","h","a","t"," ","t","o","o","l","s"," ","a","r","e"," ","u","s","e","d"," ","f","o",
      "r"," ","t","h","i","s","?">>>>]
        ELSE [type |-> "topic",
              data |-> [message |-> <<"H","e","r","e"," ","a","r","e"," ","s","o","m","e"," ","f","o","r","e","n","s","i","c",
      " ","t","o","p","i","c","s"," ","y","o","u"," ","c","a","n"," ","l","e","a","r","n"," ",
      "a","b","o","u","t",":">>,
                        topics |-> [i \in 1..Len(slice0(svc.topics, 5)) |->
                                      [title |-> svc.topics[i].title,
                                       summary |-> svc.topics[i].summary,
                                       difficulty |-> svc.topics[i].difficulty]]],
              confidence |-> 60, suggestions |-> <<<<"E","x","p","l","a","i","n"," ","m","e","m","o","r","y"," ","f","o","r","e","n","s","i",
      "c","s">>, <<"W","h","a","t"," ","i","s"," ","N","T","F","S","?">>, <<"T","e","l","l"," ","m","e"," ","a","b","o","u","t"," ","W","i","n","d","o","w","s"," ",
      "f","o","r","e","n","s","i","c","s">>>>]

handleGlossaryQuery(svc, query) ==
    LET mentioned == SelectSeq(svc.glossary,
                         LAMBDA entry : includes(query, toLowerCase(entry.term)))
    IN  IF Len(mentioned) > 0
        THEN [type |-> "glossary", data |-> mentioned[1], confidence |-> 95,
              suggestions |-> [i \in 1..Len(mentioned[1].related) |->
                                 <<"W","h","a","t"," ","i","s"," ">> \o mentioned[1].related[i] \o <<"?">>]]
        ELSE [type |-> "glossary",
              data |-> [message |-> <<"B","r","o","w","s","e"," ","f","o","r","e","n","s","i","c"," ","t","e","r","m","i","n",
      "o","l","o","g","y",":">>,
                        terms |-> [i \in 1..Len(slice0(svc.glossary, 10)) |->
                                     [term |-> svc.glossary[i].term,
                                      category |-> svc.glossary[i].category]]],
              confidence |-> 50, suggestions |-> <<<<"D","e","f","i","n","e"," ","c","h","a","i","n"," ","o","f"," ","c","u","s","t","o","d",
      "y">>, <<"W","h","a","t"," ","i","s"," ","a"," ","h","a","s","h"," ","f","u","n","c","t","i","o",
      "n","?">>, <<"E","x","p","l","a","i","n"," ","M","F","T">>>>]

handleGreeting ==
    [type |-> "general", data |-> [message |-> <<"H","e","l","l","o","!"," ","I","'","m"," ","y","o","u","r"," ","D","i","g","i","t","a",
      "l"," ","F","o","r","e","n","s","i","c","s"," ","A","s","s","i","s","t","a","n","t",".",
      " ","I"," ","c","a","n"," ","h","e","l","p"," ","y","o","u"," ","w","i","t","h",":","\n",
      "U+2022"," ","F","o","r","e","n","s","i","c"," ","t","o","o","l","s"," ","a","n","d"," ","s",
      "o","f","t","w","a","r","e","\n","U+2022"," ","I","n","v","e","s","t","i","g","a","t","i","o",
      "n"," ","c","a","s","e"," ","s","t","u","d","i","e","s","\n","U+2022"," ","F","o","r","e","n",
      "s","i","c"," ","c","o","n","c","e","p","t","s"," ","a","n","d"," ","t","e","c","h","n",
      "i","q","u","e","s","\n","U+2022"," ","T","e","c","h","n","i","c","a","l"," ","t","e","r","m",
      "i","n","o","l","o","g","y","\n","\n","W","h","a","t"," ","w","o","u","l","d"," ","y","o",
      "u"," ","l","i","k","e"," ","t","o"," ","l","e","a","r","n"," ","a","b","o","u","t","?">>], confidence |-> 100,
     suggestions |-> <<<<"T","e","l","l"," ","m","e"," ","a","b","o","u","t"," ","f","o","r","e","n","s","i","c",
      " ","t","o","o","l","s">>, <<"S","h","o","w"," ","m","e"," ","a"," ","c","a","s","e"," ","s","t","u","d","y">>, <<"E","x","p","l","a","i","n"," ","m","e","m","o","r","y"," ","f","o","r","e","n","s","i",
      "c","s">>, <<"W","h","a","t"," ","i","s"," ","N","T","F","S","?">>>>]

handleHelpQuery ==
    [type |-> "general", data |-> [message |-> <<"I"," ","c","a","n"," ","a","s","s","i","s","t"," ","y","o","u"," ","w","i","t","h",":",
      "\n","\n","*","*","T","o","o","l","s","*","*",":"," ","A","s","k"," ","a","b","o","u","t",
      " ","s","p","e","c","i","f","i","c"," ","f","o","r","e","n","s","i","c"," ","s","o","f",
      "t","w","a","r","e"," ","(","A","u","t","o","p","s","y",","," ","W","i","r","e","s","h",
      "a","r","k",","," ","V","o","l","a","t","i","l","i","t","y",","," ","e","t","c",".",")",
      "\n","*","*","C","a","s","e"," ","S","t","u","d","i","e","s","*","*",":"," ","L","e","a",
      "r","n"," ","f","r","o","m"," ","r","e","a","l"," ","i","n","v","e","s","t","i","g","a",
      "t","i","o","n"," ","s","c","e","n","a","r","i","o","s","\n","*","*","C","o","n","c","e",
      "p","t","s","*","*",":"," ","U","n","d","e","r","s","t","a","n","d"," ","f","o","r","e",
      "n","s","i","c"," ","t","e","c","h","n","i","q","u","e","s"," ","a","n","d"," ","m","e",
      "t","h","o","d","o","l","o","g","i","e","s","\n","*","*","G","l","o","s","s","a","r","y",
      "*","*",":"," ","G","e","t"," ","d","e","f","i","n","i","t","i","o","n","s"," ","o","f",
      " ","t","e","c","h","n","i","c","a","l"," ","t","e","r","m","s","\n","\n","T","r","y"," ",
      "a","s","k","i","n","g"," ","q","u","e","s","t","i","o","n","s"," ","l","i","k","e",":",
      "\n","U+2022"," ","'","W","h","a","t"," ","i","s"," ","A","u","t","o","p","s","y","?","'","\n",
      "U+2022"," ","'","S","h","o","w"," ","m","e"," ","a"," ","r","a","n","s","o","m","w","a","r",
      "e"," ","c","a","s","e","'","\n","U+2022"," ","'","E","x","p","l","a","i","n"," ","m","e","m",
      "o","r","y"," ","f","o","r","e","n","s","i","c","s","'","\n","U+2022"," ","'","D","e","f","i",
      "n","e"," ","c","h","a","i","n"," ","o","f"," ","c","u","s","t","o","d","y","'">>], confidence |-> 100,
     suggestions |-> <<<<"T","e","l","l"," ","m","e"," ","a","b","o","u","t"," ","V","o","l","a","t","i","l","i",
      "t","y">>, <<"S","h","o","w"," ","m","e"," ","a"," ","c","a","s","e"," ","s","t","u","d","y">>, <<"W","h","a","t"," ","i","s"," ","t","h","e"," ","M","F","T","?">>, <<"E","x","p","l","a","i","n"," ","f","i","l","e"," ","c","a","r","v","i","n","g">>>>]

handleGeneralQuery(svc, query) ==
    LET firstWord == splitChar(query, " ")[1]
        toolMatches == autocomplete(svc.toolsTrie, firstWord, 3)
        topicMatches == autocomplete(svc.topicTrie, firstWord, 3)
        glossaryMatches == autocomplete(svc.glossaryTrie, firstWord, 3)
    IN  IF Len(toolMatches) > 0 \/ Len(topicMatches) > 0 \/ Len(glossaryMatches) > 0
        THEN [type |-> "suggestions",
              data |-> [message |-> <<"I","'","m"," ","n","o","t"," ","s","u","r","e"," ","I"," ","u","n","d","e","r","s","t",
      "o","o","d"," ","t","h","a","t","."," ","D","i","d"," ","y","o","u"," ","m","e","a","n",
      " ","o","n","e"," ","o","f"," ","t","h","e","s","e","?">>,
                        suggestions |-> slice0(toolMatches \o topicMatches
                                               \o glossaryMatches, 5)],
              confidence |-> 30, suggestions |-> <<<<"S","h","o","w"," ","m","e"," ","a","l","l"," ","t","o","o","l","s">>, <<"L","i","s","t"," ","c","a","s","e"," ","s","t","u","d","i","e","s">>, <<"B","r","o","w","s","e"," ","t","o","p","i","c","s">>, <<"H","e","l","p">>>>]
        ELSE [type |-> "general", data |-> [message |-> <<"I","'","m"," ","s","t","i","l","l"," ","l","e","a","r","n","i","n","g","!"," ","T","r",
      "y"," ","a","s","k","i","n","g"," ","a","b","o","u","t",":","\n","U+2022"," ","S","p","e","c",
      "i","f","i","c"," ","f","o","r","e","n","s","i","c"," ","t","o","o","l","s"," ","(","A",
      "u","t","o","p","s","y",","," ","W","i","r","e","s","h","a","r","k",","," ","V","o","l",
      "a","t","i","l","i","t","y",")","\n","U+2022"," ","I","n","v","e","s","t","i","g","a","t","i",
      "o","n"," ","c","a","s","e"," ","s","t","u","d","i","e","s","\n","U+2022"," ","F","o","r","e",
      "n","s","i","c"," ","c","o","n","c","e","p","t","s"," ","(","m","e","m","o","r","y"," ",
      "f","o","r","e","n","s","i","c","s",","," ","f","i","l","e"," ","s","y","s","t","e","m",
      "s",")","\n","U+2022"," ","T","e","c","h","n","i","c","a","l"," ","t","e","r","m","s"," ","(",
      "M","F","T",","," ","h","a","s","h"," ","f","u","n","c","t","i","o","n",","," ","c","h",
      "a","i","n"," ","o","f"," ","c","u","s","t","o","d","y",")">>],
              confidence |-> 20, suggestions |-> <<<<"W","h","a","t"," ","i","s"," ","A","u","t","o","p","s","y","?">>, <<"S","h","o","w"," ","m","e"," ","a"," ","c","a","s","e"," ","s","t","u","d","y">>, <<"E","x","p","l","a","i","n"," ","N","T","F","S">>, <<"D","e","f","i","n","e"," ","r","o","o","t","k","i","t">>>>]

\* the intent detection of processQuery: the handler that runs and its result
detectIntent_topicFirst(svc, query) ==
    IF isTopicQuery(svc, query)
    THEN [intent |-> "topic", result |-> handleTopicQuery(svc, query)]
    ELSE IF isToolQuery(svc, query)
    THEN [intent |-> "tool", result |-> handleToolQuery(svc, query)]
    ELSE IF isCaseQuery(svc, query)
    THEN [intent |-> "case", result |-> handleCaseQuery(svc, query)]
    ELSE IF isGlossaryQuery(svc, query)
    THEN [intent |-> "glossary", result |-> handleGlossaryQuery(svc, query)]
    ELSE IF isGreeting(svc, query)
    THEN [intent |-> "greeting", result |-> handleGreeting]
    ELSE IF isHelpQuery(svc, query)
    THEN [intent |-> "help", result |-> handleHelpQuery]
    ELSE [intent |-> "general", result |-> handleGeneralQuery(svc, query)]

detectIntent(svc, query) ==
    IF isToolQuery(svc, query)
    THEN [intent |-> "tool", result |-> handleToolQuery(svc, query)]
    ELSE IF isCaseQuery(svc, query)
    THEN [intent |-> "case", result |-> handleCaseQuery(svc, query)]
    ELSE IF isTopicQuery(svc, query)
    THEN [intent |-> "topic", result |-> handleTopicQuery(svc, query)]
    ELSE IF isGlossaryQuery(svc, query)
    THEN [intent |-> "glossary", result |-> handleGlossaryQuery(svc, query)]
    ELSE IF isGreeting(svc, query)
    THEN [intent |-> "greeting", result |-> handleGreeting]
    ELSE IF isHelpQuery(svc, query)
    THEN [intent |-> "help", result |-> handleHelpQuery]
    ELSE [intent |-> "general", result |-> handleGeneralQuery(svc, query)]

\* processQuery: the service after the call, the returned result, and
\* whether the cache answered ("cached") or which handler ran
fksProcessQuery_cachesRawQuery(svc, query) ==
    LET normalizedQuery == trim(toLowerCase(query))
        cached == lruGetResult(svc.responseCache, normalizedQuery)
        looked == lruGet(svc.responseCache, normalizedQuery)
        detected == detectIntent(svc, normalizedQuery)
    IN  IF Truthy(cached)
        THEN [svc |-> [svc EXCEPT !.responseCache = looked],
              result |-> JSONparse(cached), intent |-> "cached"]
        ELSE [svc |-> [svc EXCEPT !.responseCache =
                          lruPut(looked, query, JSONstringify(detected.result))],
              result |-> detected.result, intent |-> detected.intent]

fksProcessQuery(svc, query) ==
    LET normalizedQuery == trim(toLowerCase(query))
        cached == lruGetResult(svc.responseCache, normalizedQuery)
        looked == lruGet(svc.responseCache, normalizedQuery)
        detected == detectIntent(svc, normalizedQuery)
    IN  IF Truthy(cached)
        THEN [svc |-> [svc EXCEPT !.responseCache = looked],
              result |-> JSONparse(cached), intent |-> "cached"]
        ELSE [svc |-> [svc EXCEPT !.responseCache =
                          lruPut(looked, normalizedQuery, JSONstringify(detected.result))],
              result |-> detected.result, intent |-> detected.intent]

\* the state of the exported singleton after module load, no call made yet
FksIdle == [op |-> "none", query |-> NULL, intent |-> "none", result |-> NULL]

FksInit ==
    /\ fks = ForensicKnowledgeServiceNew
    /\ fksOut = FksIdle

\* every processQuery consults the cache once: the lookups are counted
MaxFksCalls == 2

FksProcessQuery(query) ==
    /\ fks.responseCache.hits + fks.responseCache.misses < MaxFksCalls
    /\ LET done == fksProcessQuery(fks, query)
       IN  /\ fks' = done.svc
           /\ fksOut' = [op |-> "processQuery", query |-> query,
                         intent |-> done.intent, result |-> done.result]

\* getCacheStats
FksGetCacheStats ==
    /\ fksOut.op # "getCacheStats"
    /\ fks' = fks
    /\ fksOut' = [op |-> "getCacheStats", query |-> NULL, intent |-> "none",
                  result |-> getStats(fks.responseCache)]
(***************************************************************************)
(* Graph: adjacency lists in a Map kept in insertion order                 *)
(***************************************************************************)
MaxGraphCalls == 4

GVertices == {"A", "B", "C"}
GWeights == {1, 5}

\* new Graph(isDirected)
GraphNew(isDirected) ==
    [adjacencyList |-> <<>>, isDirected |-> isDirected, vertexCount |-> 0, edgeCount |-> 0]

addVertex(g, vertex) ==
    IF OMapHas(g.adjacencyList, vertex) THEN g
    ELSE [g EXCEPT !.adjacencyList = OMapSet(@, vertex, <<>>),
                   !.vertexCount = @ + 1]

\* edges.find / findIndex(e => e.to === to): the first index, 0 when none
findIndexTo(edges, to) ==
    IF \E i \in 1..Len(edges) : edges[i].to = to
    THEN CHOOSE i \in 1..Len(edges) :
             edges[i].to = to /\ \A j \in 1..(i - 1) : edges[j].to # to
    ELSE 0

\* edges.splice(index, 1)
splice1(edges, index) == SubSeq(edges, 1, index - 1) \o SubSeq(edges, index + 1, Len(edges))

\* push of a new edge, or the weight update of the existing one
putEdge(edges, to, weight) ==
    IF findIndexTo(edges, to) = 0 THEN Append(edges, [to |-> to, weight |-> weight])
    ELSE [edges EXCEPT ![findIndexTo(edges, to)].weight = weight]

addEdge(g, from, to, weight) ==
    LET g1 == addVertex(addVertex(g, from), to)
        fromEdges == OMapGet(g1.adjacencyList, from)
        g2 == [g1 EXCEPT !.adjacencyList = OMapSet(@, from, putEdge(fromEdges, to, weight)),
                         !.edgeCount = IF findIndexTo(fromEdges, to) = 0 THEN @ + 1 ELSE @]
    IN  IF g.isDirected THEN g2
        ELSE [g2 EXCEPT !.adjacencyList =
                  OMapSet(@, to, putEdge(OMapGet(g2.adjacencyList, to), from, weight))]

\* the loop of removeVertex over the first n adjacency lists: the first edge
\* to the vertex is spliced out of each list and counted
RECURSIVE removeEdgesTo(_, _, _)
removeEdgesTo(g, vertex, n) ==
    IF n = 0 THEN g
    ELSE LET g1 == removeEdgesTo(g, vertex, n - 1)
             edges == g1.adjacencyList[n].v
             index == findIndexTo(edges, vertex)
         IN  IF index = 0 THEN g1
             ELSE [g1 EXCEPT !.adjacencyList[n].v = splice1(edges, index),
                             !.edgeCount = @ - 1]

removeVertexResult(g, vertex) == OMapHas(g.adjacencyList, vertex)

removeVertex(g, vertex) ==
    IF ~OMapHas(g.adjacencyList, vertex) THEN g
    ELSE LET g1 == removeEdgesTo(g, vertex, Len(g.adjacencyList))
             edgeCount == Len(OMapGet(g1.adjacencyList, vertex))
         IN  [g1 EXCEPT !.edgeCount = @ - edgeCount,
                        !.adjacencyList = SelectSeq(@, LAMBDA e : e.k # vertex),
                        !.vertexCount = @ - 1]

removeEdgeResult(g, from, to) ==
    /\ OMapHas(g.adjacencyList, from)
    /\ findIndexTo(OMapGet(g.adjacencyList, from), to) # 0

removeEdge(g, from, to) ==
    IF ~removeEdgeResult(g, from, to) THEN g
    ELSE LET fromEdges == OMapGet(g.adjacencyList, from)
             g1 == [g EXCEPT !.adjacencyList =
                        OMapSet(@, from, splice1(fromEdges, findIndexTo(fromEdges, to))),
                             !.edgeCount = @ - 1]
         IN  IF g.isDirected \/ ~OMapHas(g1.adjacencyList, to) THEN g1
             ELSE LET toEdges == OMapGet(g1.adjacencyList, to)
                      reverseIndex == findIndexTo(toEdges, from)
                  IN  IF reverseIndex = 0 THEN g1
                      ELSE [g1 EXCEPT !.adjacencyList =
                                OMapSet(@, to, splice1(toEdges, reverseIndex))]

graphClear(g) == [g EXCEPT !.adjacencyList = <<>>, !.vertexCount = 0, !.edgeCount = 0]

getVertexCount(g) == g.vertexCount

getEdgeCount(g) == g.edgeCount

hasEdge(g, from, to) ==
    /\ OMapHas(g.adjacencyList, from)
    /\ findIndexTo(OMapGet(g.adjacencyList, from), to) # 0

GraphIdle == [op |-> "new", result |-> NULL, calls |-> 0]

\* at rest: an empty undirected graph
GraphRest ==
    /\ graph = GraphNew(FALSE)
    /\ graphOut = GraphIdle

GraphInit ==
    /\ \E isDirected \in BOOLEAN : graph = GraphNew(isDirected)
    /\ graphOut = GraphIdle

AddVertex(vertex) ==
    /\ graphOut.calls < MaxGraphCalls
    /\ graph' = addVertex(graph, vertex)
    /\ graphOut' = [op |-> "addVertex", result |-> UNDEFINED, calls |-> graphOut.calls + 1]

AddEdge(from, to, weight) ==
    /\ graphOut.calls < MaxGraphCalls
    /\ graph' = addEdge(graph, from, to, weight)
    /\ graphOut' = [op |-> "addEdge", result |-> UNDEFINED, calls |-> graphOut.calls + 1]

RemoveVertex(vertex) ==
    /\ graphOut.calls < MaxGraphCalls
    /\ graph' = removeVertex(graph, vertex)
    /\ graphOut' = [op |-> "removeVertex", result |-> removeVertexResult(graph, vertex),
                   calls |-> graphOut.calls + 1]

RemoveEdge(from, to) ==
    /\ graphOut.calls < MaxGraphCalls
    /\ graph' = removeEdge(graph, from, to)
    /\ graphOut' = [op |-> "removeEdge", result |-> removeEdgeResult(graph, from, to),
                   calls |-> graphOut.calls + 1]

GraphClear ==
    /\ graphOut.calls < MaxGraphCalls
    /\ graph' = graphClear(graph)
    /\ graphOut' = [op |-> "clear", result |-> UNDEFINED, calls |-> graphOut.calls + 1]

(***************************************************************************)
(* The service under calls: legacy cases and queries                       *)
(***************************************************************************)
MaxCases == 2

MemoryDump ==
    [type |-> <<"M","e","m","o","r","y"," ","D","u","m","p">>, description |-> <<"R","A","M"," ","i","m","a","g","e"," ","o","f"," ","t","h","e"," ","f","i","l","e"," ",
      "s","e","r","v","e","r">>,
     location |-> <<"s","r","v","0","1",".","r","a","w">>]

EventLogs ==
    [type |-> <<"E","v","e","n","t"," ","L","o","g","s">>, description |-> <<"W","i","n","d","o","w","s"," ","s","e","c","u","r","i","t","y"," ","l","o","g">>,
     location |-> <<"S","e","c","u","r","i","t","y",".","e","v","t","x">>]

VolatilityStep ==
    [step |-> 1, action |-> <<"A","n","a","l","y","z","e"," ","m","e","m","o","r","y"," ","d","u","m","p">>, tool |-> <<"V","o","l","a","t","i","l","i","t","y">>,
     expectedResult |-> <<"I","n","j","e","c","t","e","d"," ","p","r","o","c","e","s","s"," ","f","o","u","n","d">>]

AutopsyStep ==
    [step |-> 2, action |-> <<"B","u","i","l","d"," ","f","i","l","e"," ","t","i","m","e","l","i","n","e">>, tool |-> <<"A","u","t","o","p","s","y">>,
     expectedResult |-> <<"T","i","m","e","l","i","n","e"," ","b","u","i","l","t">>]

ManualStep ==
    [step |-> 3, action |-> <<"R","e","v","i","e","w"," ","n","o","t","e","s">>, tool |-> <<>>, expectedResult |-> <<"D","o","n","e">>]

LegacyCases ==
    { [id |-> <<"r","a","n","s","o","m","w","a","r","e","-","i","n","v","e","s","t","i","g","a","t","i",
      "o","n">>, scenario |-> <<"R","a","n","s","o","m","w","a","r","e"," ","h","i","t"," ","t","h","e"," ","h","o","s",
      "p","i","t","a","l">>,
       artifacts |-> <<MemoryDump>>, workflow |-> <<VolatilityStep>>,
       outcomes |-> <<<<"F","i","l","e","s"," ","e","n","c","r","y","p","t","e","d"," ","b","y"," ","r","a","n",
      "s","o","m","w","a","r","e">>>>, legalNotes |-> <<>>],
      [id |-> <<"r","a","n","s","o","m","w","a","r","e","-","i","n","v","e","s","t","i","g","a","t","i",
      "o","n">>, scenario |-> <<"S","e","r","v","e","r","s"," ","w","e","r","e"," ","e","n","c","r","y","p","t","e","d",
      " ","o","v","e","r","n","i","g","h","t">>,
       artifacts |-> <<MemoryDump>>, workflow |-> <<VolatilityStep>>,
       outcomes |-> <<<<"F","i","l","e","s"," ","e","n","c","r","y","p","t","e","d"," ","b","y"," ","r","a","n",
      "s","o","m","w","a","r","e">>>>, legalNotes |-> <<>>],
      [id |-> <<"a","p","t">>, scenario |-> <<"A","d","v","a","n","c","e","d"," ","t","h","r","e","a","t">>,
       artifacts |-> <<>>, workflow |-> <<>>, outcomes |-> <<>>, legalNotes |-> <<>>],
      [id |-> <<"a","p","t">>, scenario |-> <<"M","e","m","o","r","y"," ","t","o","o","l","s"," ","f","o","u","n","d"," ","m","a","l",
      "w","a","r","e"," ","t","y","p","e">>,
       artifacts |-> <<EventLogs, MemoryDump>>,
       workflow |-> <<AutopsyStep, VolatilityStep, ManualStep, VolatilityStep>>,
       outcomes |-> <<<<"P","h","i","s","h","i","n","g"," ","e","n","t","r","y"," ","c","o","n","f","i","r","m",
      "e","d"," ","i","n"," ","e","v","e","n","t"," ","l","o","g","s">>,
                      <<"F","i","l","e","s"," ","e","n","c","r","y","p","t","e","d"," ","b","y"," ","r","a","n",
      "s","o","m","w","a","r","e">>>>,
       legalNotes |-> <<<<"G","D","P","R">>>>] }

LegacyLists == UNION {[1..n -> LegacyCases] : n \in 1..MaxCases}

QueryToolsUsed == <<"W","h","a","t"," ","t","o","o","l","s"," ","w","e","r","e"," ","u","s","e","d"," ","i",
      "n"," ","r","a","n","s","o","m","w","a","r","e","-","i","n","v","e","s","t","i","g","a",
      "t","i","o","n","?">>
QueryExplainProcess == <<"e","x","p","l","a","i","n"," ","t","h","e"," ","p","r","o","c","e","s","s">>
QueryExplainTwoTerms == <<"E","x","p","l","a","i","n"," ","r","a","n","s","o","m","w","a","r","e"," ","m","e","m",
      "o","r","y">>
QueryShortTokens == <<" ","I","s"," ","i","t"," ","o","k","?">>

FixedQueries ==
    { QueryToolsUsed, QueryExplainProcess, <<"H","o","w"," ","d","o"," ","I"," ","i","n","v","e","s","t","i","g","a","t","e"," ","r",
      "a","n","s","o","m","w","a","r","e","?">>,
      <<"E","x","p","l","a","i","n"," ","m","e","m","o","r","y"," ","f","o","r","e","n","s","i",
      "c","s">>, <<"W","h","a","t"," ","t","o","o","l","s"," ","w","e","r","e"," ","u","s","e","d","?">>, <<"h","e","l","l","o">>,
      QueryExplainTwoTerms, QueryShortTokens }

QueryWords ==
    { <<"w","h","a","t">>, <<"t","o","o","l","s">>, <<"e","x","p","l","a","i","n">>, <<"p","r","o","c","e","s","s">>, <<"a","r","t","i","f","a","c","t">>, <<"t","i","m","e","l","i","n","e">>,
      <<"a","p","t">>, <<"r","a","n","s","o","m","w","a","r","e","-","i","n","v","e","s","t","i","g","a","t","i",
      "o","n">>, <<"p","i","z","z","a">>, <<"t","y","p","e">> }

Queries ==
    FixedQueries \cup QueryWords
    \cup {w1 \o <<" ">> \o w2 : w1 \in QueryWords, w2 \in QueryWords}

NoCall == [op |-> "none"]

RagInit ==
    /\ rag = RagNew
    /\ call = NoCall
    /\ response = [status |-> "none", value |-> NULL]

InitializeFromLegacy(legacyCases) ==
    /\ call = NoCall
    /\ Len(rag.ingestionService.indexedCases) + Len(legacyCases) <= MaxCases
    /\ rag' = initializeFromLegacy(rag, legacyCases)
    /\ UNCHANGED <<call, response>>

ProcessQuery(query) ==
    /\ call = NoCall
    /\ LET r == processQuery(rag, query)
       IN  /\ call' = [op |-> "processQuery", query |-> query, limit |-> SearchLimit,
                       threw |-> r.threw, searched |-> r.searched, detected |-> r.detected]
           /\ response' = [status |-> IF r.threw THEN "threw" ELSE "returned",
                           value |-> r.value]
    /\ UNCHANGED rag

\* detectPromptMode(query) applied on its own
DetectPromptMode(query) ==
    /\ call = NoCall
    /\ call' = [op |-> "detectPromptMode", query |-> query, limit |-> 0,
                threw |-> FALSE, searched |-> FALSE, detected |-> detectPromptMode(query)]
    /\ response' = [status |-> "returned", value |-> detectPromptMode(query)]
    /\ UNCHANGED rag

\* (variant: the cases found move to the front of the ledger)
SearchCases_movesFoundFirst(query, limit) ==
    /\ call = NoCall
    /\ call' = [op |-> "searchCases", query |-> query, limit |-> limit,
                threw |-> FALSE, searched |-> TRUE, detected |-> "none"]
    /\ response' = [status |-> "returned",
                    value |-> search(rag.ingestionService, query, limit)]
    /\ LET found == search(rag.ingestionService, query, limit)
           ids == {found[i].case_id : i \in 1..Len(found)}
           ic == rag.ingestionService.indexedCases
       IN  rag' = [rag EXCEPT !.ingestionService.indexedCases =
                       SelectSeq(ic, LAMBDA e : e.k \in ids)
                       \o SelectSeq(ic, LAMBDA e : e.k \notin ids)]

\* searchCases(query, limit): the search of the ingestion service
SearchCases(query, limit) ==
    /\ call = NoCall
    /\ call' = [op |-> "searchCases", query |-> query, limit |-> limit,
                threw |-> FALSE, searched |-> TRUE, detected |-> "none"]
    /\ response' = [status |-> "returned",
                    value |-> search(rag.ingestionService, query, limit)]
    /\ UNCHANGED rag

Partials == { <<"r","a","n">>, <<"m","e","m">>, <<"V","o","l">>, <<"a">>, <<>> }

CitationTokens ==
    { <<"a","p","t">>, <<"a","p","t",":","a","p","t","_","a","r","t","i","f","a","c","t","_","1">>, <<"a","p","t",":","a","p","t","_","f","i","n","d","i","n","g","_","9">>, <<"p","i","z","z","a">>,
      <<"a","p","t",":","a","p","t","_","a","r","t","i","f","a","c","t","_","1",":","h","a","s",
      "h">> }

\* getAutocompleteSuggestions(partial) of the service
GetAutocompleteSuggestions(partial) ==
    /\ call = NoCall
    /\ call' = [op |-> "getAutocompleteSuggestions", query |-> partial, limit |-> 0,
                threw |-> FALSE, searched |-> FALSE, detected |-> "none"]
    /\ response' = [status |-> "returned",
                    value |-> getAutocompleteSuggestions(rag.ingestionService, partial)]
    /\ UNCHANGED rag

\* validateCitation(citation) of the ingestion service
ValidateCitation(citation) ==
    /\ call = NoCall
    /\ call' = [op |-> "validateCitation", query |-> citation, limit |-> 0,
                threw |-> FALSE, searched |-> FALSE, detected |-> "none"]
    /\ response' = [status |-> "returned",
                    value |-> validateCitation(rag.ingestionService, citation)]
    /\ UNCHANGED rag

\* getStats() of the service
RagGetStats ==
    /\ call = NoCall
    /\ call' = [op |-> "getStats", query |-> <<>>, limit |-> 0,
                threw |-> FALSE, searched |-> FALSE, detected |-> "none"]
    /\ response' = [status |-> "returned", value |-> ragGetStats(rag)]
    /\ UNCHANGED rag

\* the caller takes the result and is ready for the next call
Return ==
    /\ call # NoCall
    /\ call' = NoCall
    /\ response' = [status |-> "none", value |-> NULL]
    /\ UNCHANGED rag


\* queries to the knowledge service: every intent, two intents at once,
\* and spellings that differ only in case and surrounding whitespace
FksQueries ==
    { <<"A","u","t","o","p","s","y">>, <<" "," ","a","u","t","o","p","s","y"," ">>, <<"W","h","a","t"," ","i","s"," ","A","u","t","o","p","s","y">>, <<"c","o","m","p","a","r","e">>,
      <<"r","a","n","s","o","m","w","a","r","e"," ","c","a","s","e">>, <<"d","e","f","i","n","e"," ","c","a","s","e">>, <<"w","h","a","t"," ","i","s"," ","n","t","f","s">>, <<"E","x","p","l","a","i","n">>,
      <<"d","e","f","i","n","e"," ","h","a","s","h">>, <<"m","e","a","n","i","n","g">>, <<"h","e","l","l","o">>, <<"H","e","l","l","o"," ","h","e","l","p">>, <<"H","E","L","P">>, <<"h","e","l","p"," ">>,
      <<"v","o","l">>, <<"x","y","z">>, <<>> }
(***************************************************************************)
(* Specifications: one per component, the other components at rest         *)
(***************************************************************************)
LruRest ==
    /\ lru = LRUCacheNew(1)
    /\ lruTouch = <<>>
    /\ lruOut = [op |-> "new", key |-> NULL, result |-> NULL, dropped |-> {}]

Init == LruRest /\ TrieInit /\ RagInit /\ FksInit /\ GraphRest

Next ==
    /\ \/ \E legacyCases \in LegacyLists : InitializeFromLegacy(legacyCases)
       \/ \E query \in Queries : ProcessQuery(query)
       \/ \E query \in Queries : DetectPromptMode(query)
       \/ \E query \in Queries, limit \in 1..MaxCases : SearchCases(query, limit)
       \/ \E partial \in Partials : GetAutocompleteSuggestions(partial)
       \/ \E citation \in CitationTokens : ValidateCitation(citation)
       \/ RagGetStats
       \/ Return
    /\ UNCHANGED <<lruVars, trieVars, fksVars, graphVars>>

Spec == Init /\ [][Next]_vars

InitLRU == LruInit /\ TrieInit /\ RagInit /\ FksInit /\ GraphRest

NextLRU ==
    /\ lru # NoCache
    /\ \/ \E k \in LKeys : Get(k)
       \/ \E k \in LKeys, v \in LValues : Put(k, v)
       \/ \E k \in LKeys : Has(k)
       \/ \E k \in LKeys : Delete(k)
       \/ Clear
       \/ ResetStats
       \/ GetStats
       \/ Keys
       \/ Values
       \/ Entries
    /\ UNCHANGED <<trieVars, ragVars, fksVars, graphVars>>

SpecLRU == InitLRU /\ [][NextLRU]_vars

InitLRUNew == LruNew /\ TrieInit /\ RagInit /\ FksInit /\ GraphRest

SpecLRUNew == InitLRUNew /\ [][NextLRU]_vars

InitTrie == LruRest /\ TrieInit /\ RagInit /\ FksInit /\ GraphRest

NextTrie ==
    /\ \/ \E w \in TWords : TrieInsert(w)
       \/ \E w \in TWords : TrieSearch(w)
       \/ \E w \in TWords, limit \in 0..MaxLimit : TrieAutocomplete(w, limit)
       \/ \E w \in TWords : TrieDelete(w)
       \/ \E w \in TWords : TrieStartsWith(w)
       \/ TrieGetSize
       \/ TrieGetAllWords
       \/ TrieClear
       \/ TrieReturn
    /\ UNCHANGED <<lruVars, ragVars, fksVars, graphVars>>

SpecTrie == InitTrie /\ [][NextTrie]_vars


InitFks == LruRest /\ TrieInit /\ RagInit /\ FksInit /\ GraphRest

NextFks ==
    /\ \/ \E query \in FksQueries : FksProcessQuery(query)
       \/ FksGetCacheStats
    /\ UNCHANGED <<lruVars, trieVars, ragVars, graphVars>>

SpecFks == InitFks /\ [][NextFks]_vars

InitGraph == LruRest /\ TrieInit /\ RagInit /\ FksInit /\ GraphInit

NextGraph ==
    /\ \/ \E vertex \in GVertices : AddVertex(vertex)
       \/ \E from \in GVertices, to \in GVertices, weight \in GWeights :
              AddEdge(from, to, weight)
       \/ \E vertex \in GVertices : RemoveVertex(vertex)
       \/ \E from \in GVertices, to \in GVertices : RemoveEdge(from, to)
       \/ GraphClear
    /\ UNCHANGED <<lruVars, trieVars, ragVars, fksVars>>

SpecGraph == InitGraph /\ [][NextGraph]_vars
(***************************************************************************)
(* Properties                                                              *)
(***************************************************************************)
Reverse(a) == [i \in 1..Len(a) |-> a[Len(a) + 1 - i]]

\* C2: a put of an absent key into a full cache removes exactly the entry
\* whose last touch (get hit or put) is the oldest and keeps every other
\* entry; a get hit on the oldest key makes the next-oldest key the one
\* that the next insert removes.
C2_EvictsLeastRecentlyTouched ==
    [][ LET n == Len(lruTouch)
        IN  /\ (lruOut'.op = "put" /\ lruOut'.key \notin DOMAIN lru.cache
                /\ lruSize(lru) = lru.capacity)
               => /\ lruOut'.dropped = {lruTouch[n]}
                  /\ DOMAIN lru'.cache
                       = ((DOMAIN lru.cache) \ {lruTouch[n]}) \cup {lruOut'.key}
                  /\ \A k \in (DOMAIN lru.cache) \ {lruTouch[n]} :
                        lru'.cache[k].value = lru.cache[k].value
                  /\ lruKeys(lru') = <<lruOut'.key>> \o SubSeq(lruKeys(lru), 1, n - 1)
            /\ (lruOut'.op = "get" /\ n >= 2 /\ lruOut'.key = lruTouch[n]
                /\ lruOut'.key \in DOMAIN lru.cache)
               => /\ lru'.tail = lruTouch[n - 1]
                  /\ lruKeys(lru') = lruTouch'
      ]_vars

\* C2 witness: a put into a full cache of capacity 2 dropped a key after a get hit
C2_Witness ==
    /\ lruOut.op = "put"
    /\ lruOut.dropped # {}
    /\ lru.capacity = 2
    /\ lru.hits > 0
    /\ lruSize(lru) = lru.capacity

\* C3: size() = number of map entries = nodes reachable from head through
\* next = nodes reachable from tail through prev; the list holds every map
\* key exactly once; head.prev and tail.next are null; head and tail are
\* null exactly when the cache is empty; size() <= capacity.
C3_MapAndListAgree ==
    LET fwd == Walk(lru, lru.head, "next", lruSize(lru) + 1)
        bwd == Walk(lru, lru.tail, "prev", lruSize(lru) + 1)
    IN  /\ Len(fwd) = lruSize(lru)
        /\ Len(bwd) = lruSize(lru)
        /\ Range(fwd) = DOMAIN lru.cache
        /\ Range(bwd) = DOMAIN lru.cache
        /\ bwd = Reverse(fwd)
        /\ \A k \in DOMAIN lru.cache : lru.cache[k].key = k
        /\ lru.head # NULL => (lru.head \in DOMAIN lru.cache
                                /\ lru.cache[lru.head].prev = NULL)
        /\ lru.tail # NULL => (lru.tail \in DOMAIN lru.cache
                                /\ lru.cache[lru.tail].next = NULL)
        /\ (lru.head = NULL) <=> (lruSize(lru) = 0)
        /\ (lru.tail = NULL) <=> (lruSize(lru) = 0)
        /\ lruSize(lru) <= lru.capacity

\* C3 witness: the tail entry of a two-entry cache was deleted
C3_Witness ==
    /\ lruOut.op = "delete"
    /\ lruOut.result = TRUE
    /\ lruSize(lru) = 1
    /\ lruTouch # <<>>
    /\ lru.head = lruTouch[1]

\* C4: after any sequence of insert and delete, search(w) is true exactly
\* when the lowercase form of w is non-empty, was inserted and has not been
\* deleted since; a delete changes search() for no other word.
C4_SearchIffStored ==
    [][ /\ trieOut'.op \notin {"insert", "delete", "clear"}
           => (trie' = trie /\ trieWords' = trieWords)
        /\ trieOut'.op \in {"insert", "delete", "clear"}
           => \A w \in TWords :
                 trieSearch(trie', w)
                    <=> (toLowerCase(w) # <<>> /\ toLowerCase(w) \in trieWords')
        /\ trieOut'.op = "search"
           => (trieOut'.result
                 <=> (toLowerCase(trieOut'.arg) # <<>>
                      /\ toLowerCase(trieOut'.arg) \in trieWords))
        /\ trieOut'.op = "delete"
           => \A w \in TWords :
                 toLowerCase(w) # toLowerCase(trieOut'.arg)
                    => (trieSearch(trie', w) <=> trieSearch(trie, w))
      ]_vars

\* C4 witness: a stored word was deleted while a stored proper prefix of it remains
C4_Witness ==
    /\ trieOut.op = "delete"
    /\ trieOut.result = TRUE
    /\ \E w \in trieWords :
          /\ Len(w) < Len(trieOut.arg)
          /\ strStartsWith(toLowerCase(trieOut.arg), w)
          /\ trieSearch(trie, w)

\* C5: for every non-empty prefix and every limit >= 0, autocomplete returns
\* at most limit items and every item starts with the prefix, compared
\* case-insensitively.
C5_AutocompleteWithinLimit ==
    (trieOut.op = "autocomplete" /\ trieOut.arg # <<>> /\ trieOut.limit >= 0)
       => /\ Len(trieOut.result) <= trieOut.limit
          /\ \A i \in 1..Len(trieOut.result) :
                strStartsWith(toLowerCase(trieOut.result[i]), toLowerCase(trieOut.arg))

\* the ledger entry of a case id, and the ids of its artifacts and findings
LedgerHas(caseId) == OMapHas(rag.enhancedCases, caseId)

ItemIds(caseId) ==
    LET c == OMapGet(rag.enhancedCases, caseId)
    IN  {c.artifacts[i].artifact_id : i \in 1..Len(c.artifacts)}
        \cup {c.findings[i].finding_id : i \in 1..Len(c.findings)}

RefersToRecord(caseId, items) ==
    LedgerHas(caseId) /\ items \subseteq ItemIds(caseId)

CitationRefersToRecord(cit) ==
    RefersToRecord(cit.case_id, {cit.artifact_id, cit.finding_id} \ {UNDEFINED})

TokenRefersToRecord(token) ==
    LET parts == splitChar(token, ":")
    IN  RefersToRecord(parts[1], {parts[i] : i \in 2..Len(parts)})

CitationText(cit) ==
    cit.case_id
    \o (IF cit.artifact_id = UNDEFINED THEN <<>> ELSE <<":">> \o cit.artifact_id)
    \o (IF cit.finding_id = UNDEFINED THEN <<>> ELSE <<":">> \o cit.finding_id)

Returned == call.op = "processQuery" /\ ~call.threw

\* C1: every citation returned by processQuery names a case of the ledger
\* and carries only ids of artifacts or findings of that case; a bracketed
\* token of the answer that fails this never appears in the list; the
\* response is returned also when no token passes.
C1_CitationsReferToRecords ==
    Returned =>
        /\ response.status = "returned"
        /\ \A i \in 1..Len(response.value.citations) :
              CitationRefersToRecord(response.value.citations[i])
        /\ LET tokens == extractCitations(response.value.answer)
           IN  \A t \in 1..Len(tokens) :
                  ~TokenRefersToRecord(tokens[t])
                     => \A i \in 1..Len(response.value.citations) :
                           CitationText(response.value.citations[i]) # tokens[t]

\* C1 witness: an answer whose bracketed tokens all fail, returned with the
\* citations of the search results
C1_Witness ==
    /\ Returned
    /\ LET tokens == extractCitations(response.value.answer)
       IN  /\ tokens # <<>>
           /\ \A t \in 1..Len(tokens) : ~TokenRefersToRecord(tokens[t])
    /\ response.value.citations # <<>>

\* C6: a search whose query has the lowercased case_id of an ingested case
\* among its tokens, with a limit not below the number of ingested cases,
\* returns that case with relevance_score > 0.
C6_CaseIdTokenFindsCase ==
    (call.op = "searchCases"
     /\ call.limit >= Len(rag.ingestionService.indexedCases))
       => \A caseId \in Range(getAllCaseIds(rag.ingestionService)) :
             toLowerCase(caseId) \in Range(tokenize(call.query))
                => \E i \in 1..Len(response.value) :
                      /\ response.value[i].case_id = caseId
                      /\ response.value[i].relevance_score > 0

RansomwareCaseId ==
    <<"r","a","n","s","o","m","w","a","r","e","-","i","n","v","e","s","t","i","g","a","t","i",
      "o","n">>

\* C7: with a ledger of one legacy case "ransomware-investigation" that has
\* a "Memory Dump" artifact and a "Volatility" step, the query "What tools
\* were used in ransomware-investigation?" gives mode direct, an answer
\* mentioning "Volatility", a citation of that case and 3 follow-ups.
C7_ToolsUsedEndToEnd ==
    (/\ call.op = "processQuery"
     /\ call.query = QueryToolsUsed
     /\ OMapKeys(rag.enhancedCases) = <<RansomwareCaseId>>
     /\ LET c == OMapGet(rag.enhancedCases, RansomwareCaseId)
        IN  /\ \E i \in 1..Len(c.artifacts) : c.artifacts[i].type = <<"M","e","m","o","r","y"," ","D","u","m","p">>
            /\ \E i \in 1..Len(c.tools_used) : c.tools_used[i].tool_name = <<"V","o","l","a","t","i","l","i","t","y">>)
       => /\ ~call.threw
          /\ response.value.mode = "direct_qa"
          /\ includes(response.value.answer, <<"V","o","l","a","t","i","l","i","t","y">>)
          /\ \E i \in 1..Len(response.value.citations) :
                response.value.citations[i].case_id = RansomwareCaseId
          /\ Len(response.value.follow_up_suggestions) = 3

\* C8: detectPromptMode gives walkthrough when the lowercased query holds a
\* walkthrough phrase, otherwise teaching when it holds a teaching phrase,
\* otherwise direct; "explain the process" is walkthrough; nothing but the
\* query decides.
C8_ModeByFirstMatch ==
    (call.op = "detectPromptMode" \/ (call.op = "processQuery" /\ call.searched))
       => LET q == toLowerCase(call.query)
              w == \E i \in 1..Len(walkthroughKeywords) : includes(q, walkthroughKeywords[i])
              t == \E i \in 1..Len(teachingKeywords) : includes(q, teachingKeywords[i])
          IN  /\ w => call.detected = "guided_walkthrough"
              /\ (~w /\ t) => call.detected = "teaching"
              /\ (~w /\ ~t) => call.detected = "direct_qa"
              /\ call.query = QueryExplainProcess => call.detected = "guided_walkthrough"
              /\ (Returned /\ call.searched) => response.value.mode = call.detected

\* C8 witness: "explain the process" classified walkthrough over a filled ledger
C8_Witness ==
    /\ call.op = "detectPromptMode"
    /\ call.query = QueryExplainProcess
    /\ call.detected = "guided_walkthrough"
    /\ rag.enhancedCases # <<>>

GenericFollowUps ==
    <<<<"S","h","o","w"," ","m","e"," ","a"," ","c","a","s","e"," ","s","t","u","d","y">>, <<"E","x","p","l","a","i","n"," ","m","e","m","o","r","y"," ","f","o","r","e","n","s","i",
      "c","s">>,
      <<"H","o","w"," ","t","o"," ","i","n","v","e","s","t","i","g","a","t","e"," ","r","a","n",
      "s","o","m","w","a","r","e","?">>>>

C10_ThreeFollowUps ==
    Returned
       => /\ Len(response.value.follow_up_suggestions) = 3
          /\ \A i \in 1..Len(response.value.follow_up_suggestions) :
                Len(response.value.follow_up_suggestions[i]) > 0

\* C10 witness: a teaching answer built from a matched case
C10_Witness ==
    /\ Returned
    /\ call.searched
    /\ response.value.mode = "teaching"
    /\ response.value.citations # <<>>
    /\ Len(response.value.follow_up_suggestions) = 3

\* C11: processQuery never aborts: for every query and every ledger built
\* from legacy cases (also with no artifacts, no workflow or no outcomes)
\* it returns a response value instead of throwing.
C11_NeverAborts ==
    call.op = "processQuery"
       => /\ ~call.threw
          /\ response.status = "returned"

\* C12: new LRUCache(capacity) throws for every capacity <= 0 and leaves no
\* usable cache; for every capacity >= 1 it gives an empty cache with
\* hits = misses = 0 and that capacity.
C12_ConstructorChecksCapacity ==
    lruOut.op = "new"
       => /\ lruOut.capacity <= 0 => (lruOut.threw /\ lru = NoCache)
          /\ lruOut.capacity >= 1
                => /\ ~lruOut.threw
                   /\ lru # NoCache
                   /\ lru.capacity = lruOut.capacity
                   /\ lruSize(lru) = 0
                   /\ lruKeys(lru) = <<>>
                   /\ lru.head = NULL /\ lru.tail = NULL
                   /\ lru.hits = 0 /\ lru.misses = 0

\* C12 witness: construction with capacity 0 threw
C12_Witness ==
    /\ lruOut.op = "new"
    /\ lruOut.capacity = 0
    /\ lruOut.threw
    /\ lru = NoCache

\* C13: get on a present key returns the value last put for it, makes it the
\* most recently used and adds 1 to hits only; get on an absent key returns
\* undefined, adds 1 to misses only and changes neither contents nor order;
\* put, has and delete change no counter and clear and resetStats zero both,
\* so hits + misses counts the gets since construction or the last reset.
C13_GetCountsAndPromotes ==
    [][ LET k == lruOut'.key
            op == lruOut'.op
        IN  /\ op = "put" => lru'.cache[k].value = lruOut'.value
            /\ \A x \in (DOMAIN lru.cache) \cap (DOMAIN lru'.cache) :
                  (op = "put" /\ k = x) \/ lru'.cache[x].value = lru.cache[x].value
            /\ (op = "get" /\ k \in DOMAIN lru.cache)
                  => /\ lruOut'.result = lru.cache[k].value
                     /\ lruKeys(lru') = <<k>> \o Without(lruKeys(lru), k)
                     /\ DOMAIN lru'.cache = DOMAIN lru.cache
                     /\ lru'.hits = lru.hits + 1
                     /\ lru'.misses = lru.misses
            /\ (op = "get" /\ k \notin DOMAIN lru.cache)
                  => /\ lruOut'.result = UNDEFINED
                     /\ lru'.misses = lru.misses + 1
                     /\ lru'.hits = lru.hits
                     /\ lru'.cache = lru.cache
                     /\ lru'.head = lru.head /\ lru'.tail = lru.tail
            /\ op \in {"put", "has", "delete"}
                  => (lru'.hits = lru.hits /\ lru'.misses = lru.misses)
            /\ op \in {"clear", "resetStats"}
                  => (lru'.hits = 0 /\ lru'.misses = 0)
      ]_vars

\* C13 witness: after a miss, a get hit on the older of two keys made it the head
C13_Witness ==
    /\ lruOut.op = "get"
    /\ lruOut.result # UNDEFINED
    /\ lru.hits = 1 /\ lru.misses = 1
    /\ lruSize(lru) = 2
    /\ lru.head = lruOut.key
    /\ lruTouch[1] = lruOut.key

\* C14: with h hits and m misses since the last reset, getStats().hitRate is
\* round(h/(h+m)*10000)/100 when h+m > 0 and 0 when h+m = 0, lies between 0
\* and 100, and getStats reports the current size and the construction
\* capacity (hitRate is held in hundredths of a percent).
C14_HitRate ==
    [][ /\ lru'.capacity = lru.capacity
        /\ lruOut'.op = "getStats"
           => LET h == lru.hits
                  m == lru.misses
                  r == lruOut'.result.hitRate
              IN  /\ lruOut'.result.hits = h /\ lruOut'.result.misses = m
                  /\ h + m = 0 => r = 0
                  /\ h + m > 0
                        => /\ 2 * (h + m) * r <= 2 * h * 10000 + (h + m)
                           /\ 2 * h * 10000 + (h + m) < 2 * (h + m) * (r + 1)
                  /\ 0 <= r /\ r <= 100 * 100
                  /\ lruOut'.result.size = Cardinality(DOMAIN lru.cache)
                  /\ lruOut'.result.size = Len(lruTouch)
                  /\ lruOut'.result.capacity = lru.capacity
      ]_vars

\* C14 witness: statistics read after two hits and one miss
C14_Witness ==
    /\ lruOut.op = "getStats"
    /\ lruOut.result.hits = 2
    /\ lruOut.result.misses = 1
    /\ lruOut.result.hitRate = 6667

\* C15: getSize() is the number of distinct lowercase words stored: a new
\* word adds 1, a stored word in any casing and the empty string add 0, a
\* successful delete subtracts 1, a failed one 0, clear gives 0; and
\* getAllWords() returns exactly getSize() words.
C15_SizeCountsWords ==
    [][ LET op == trieOut'.op
            arg == trieOut'.arg
        IN  /\ op \notin {"insert", "delete", "clear"}
                  => (trie' = trie /\ trieWords' = trieWords)
            /\ op \in {"insert", "delete", "clear"}
                  => /\ getSize(trie') = Cardinality(trieWords')
                     /\ Len(getAllWords(trie')) = getSize(trie')
            /\ op = "insert"
                  => getSize(trie')
                       = getSize(trie)
                         + (IF arg # <<>> /\ toLowerCase(arg) \notin trieWords
                            THEN 1 ELSE 0)
            /\ op = "delete"
                  => /\ trieOut'.result = (toLowerCase(arg) \in trieWords)
                     /\ getSize(trie')
                          = getSize(trie) - (IF trieOut'.result THEN 1 ELSE 0)
            /\ op = "clear" => getSize(trie') = 0
            /\ op = "getSize" => trieOut'.result = Cardinality(trieWords)
            /\ op = "getAllWords" => Len(trieOut'.result) = getSize(trie)
      ]_vars

\* C15 witness: "A" was inserted while "a" was stored and the size stayed 1
C15_Witness ==
    /\ trieOut.op = "insert"
    /\ trieOut.arg = <<"A">>
    /\ trie.nodes[<<"a">>].value = <<"a">>
    /\ getSize(trie) = 1

\* the words getAllWords returns
StoredCasings(t) == Range(getAllWords(t))

\* C16: lookups ignore case and results keep the stored casing: search and
\* startsWith are true for every casing variant of a stored word, and
\* autocomplete and getAllWords return a word in the casing of the insert
\* that stored it.
C16_CaseInsensitiveKeepsCasing ==
    [][ LET op == trieOut'.op
            arg == trieOut'.arg
        IN  /\ op \notin {"insert", "delete", "clear"}
                  => (trie' = trie /\ trieWords' = trieWords)
            /\ op \in {"insert", "delete", "clear"}
                  => /\ \A v \in TWords :
                           toLowerCase(v) \in trieWords'
                              => (trieSearch(trie', v) /\ trieStartsWith(trie', v))
                     /\ {toLowerCase(x) : x \in StoredCasings(trie')} = trieWords'
            /\ op = "insert"
                  => StoredCasings(trie')
                       = StoredCasings(trie)
                         \cup (IF arg # <<>> /\ toLowerCase(arg) \notin trieWords
                               THEN {arg} ELSE {})
            /\ op = "delete"
                  => StoredCasings(trie')
                       = {x \in StoredCasings(trie) : toLowerCase(x) # toLowerCase(arg)}
            /\ op \in {"search", "startsWith"}
                  => (toLowerCase(arg) \in trieWords => trieOut'.result = TRUE)
            /\ op = "getAllWords" => Range(trieOut'.result) = StoredCasings(trie)
            /\ (op = "autocomplete" /\ arg # <<>>)
                  => /\ Range(trieOut'.result) \subseteq StoredCasings(trie)
                     /\ trieOut'.limit >= getSize(trie)
                           => Range(trieOut'.result)
                                = {x \in StoredCasings(trie) :
                                      strStartsWith(toLowerCase(x), toLowerCase(arg))}
      ]_vars

\* C16 witness: autocomplete("a") returned the word stored as "Ab"
C16_Witness ==
    /\ trieOut.op = "autocomplete"
    /\ trieOut.arg = <<"a">>
    /\ trieOut.result = << <<"A", "b">> >>


\* C17: processQuery with its response cache returns what classifying the
\* lowercased, trimmed query afresh returns. A call whose normalized query
\* is cached runs no classification and adds no entry; any other call runs
\* the classification once and stores its result as exactly one new entry
\* under the normalized query, so spellings that differ only in letter case
\* or surrounding whitespace share one entry.
C17_CacheIsTransparent ==
    [][ fksOut'.op = "processQuery" =>
          LET normalizedQuery == trim(toLowerCase(fksOut'.query))
              before == fks.responseCache
              after == fks'.responseCache
              afresh == detectIntent(fks, normalizedQuery).result
          IN  /\ fksOut'.result = afresh
              /\ normalizedQuery \in DOMAIN before.cache
                 => /\ fksOut'.intent = "cached"
                    /\ DOMAIN after.cache = DOMAIN before.cache
                    /\ after.hits = before.hits + 1 /\ after.misses = before.misses
              /\ normalizedQuery \notin DOMAIN before.cache
                 => /\ fksOut'.intent # "cached"
                    /\ DOMAIN after.cache = DOMAIN before.cache \cup {normalizedQuery}
                    /\ after.hits = before.hits /\ after.misses = before.misses + 1
              /\ \A k \in DOMAIN after.cache :
                    /\ k = trim(toLowerCase(k))
                    /\ after.cache[k].value =
                          IF k = normalizedQuery THEN JSONstringify(afresh)
                          ELSE before.cache[k].value
              /\ lruKeys(after)[1] = normalizedQuery
      ]_vars

\* "Autopsy" and "  autopsy " were asked in turn: the second was answered
\* from the one entry the first stored
C17_Witness ==
    /\ fksOut.op = "processQuery"
    /\ fksOut.query = <<" "," ","a","u","t","o","p","s","y"," ">>
    /\ fksOut.intent = "cached"
    /\ fksOut.result.type = "tool"
    /\ DOMAIN fks.responseCache.cache = {<<"a","u","t","o","p","s","y">>}
    /\ fks.responseCache.hits = 1
    /\ fks.responseCache.misses = 1

\* the detectors of processQuery in their order, and which of them match
IntentOrder == <<"tool", "case", "topic", "glossary", "greeting", "help">>

IntentMatches(svc, query) ==
    <<isToolQuery(svc, query), isCaseQuery(svc, query), isTopicQuery(svc, query),
      isGlossaryQuery(svc, query), isGreeting(svc, query), isHelpQuery(svc, query)>>

FirstIntent(svc, query) ==
    LET matches == IntentMatches(svc, query)
        hit == {i \in 1..Len(IntentOrder) : matches[i]}
    IN  IF hit = {} THEN "general"
        ELSE IntentOrder[CHOOSE i \in hit : \A j \in hit : i <= j]

\* C18: the intent of a query is the first of tool, case, topic, glossary,
\* greeting, help whose detector matches its normalized text, and general
\* only when none matches; the result is the one that intent's handler gives.
C18_IntentPriority ==
    fksOut.op = "processQuery" =>
        LET normalizedQuery == trim(toLowerCase(fksOut.query))
            expected == FirstIntent(fks, normalizedQuery)
        IN  /\ fksOut.intent \in {"cached", expected}
            /\ expected = "tool" => fksOut.result = handleToolQuery(fks, normalizedQuery)
            /\ expected = "case" => fksOut.result = handleCaseQuery(fks, normalizedQuery)
            /\ expected = "topic" => fksOut.result = handleTopicQuery(fks, normalizedQuery)
            /\ expected = "glossary"
               => fksOut.result = handleGlossaryQuery(fks, normalizedQuery)
            /\ expected = "greeting" => fksOut.result = handleGreeting
            /\ expected = "help" => fksOut.result = handleHelpQuery
            /\ expected = "general"
               => /\ fksOut.result = handleGeneralQuery(fks, normalizedQuery)
                  /\ \A i \in 1..Len(IntentOrder) : ~IntentMatches(fks, normalizedQuery)[i]

\* "What is Autopsy" names a tool and holds the topic phrase "what is":
\* it was answered as a tool query, with the tool's record
C18_Witness ==
    /\ fksOut.op = "processQuery"
    /\ fksOut.query = <<"W","h","a","t"," ","i","s"," ","A","u","t","o","p","s","y">>
    /\ isToolQuery(fks, trim(toLowerCase(fksOut.query)))
    /\ isTopicQuery(fks, trim(toLowerCase(fksOut.query)))
    /\ fksOut.intent = "tool"
    /\ fksOut.result.type = "tool"
    /\ fksOut.result.data = toolsData[1]

\* C19: every citation of a response returned by processQuery carries a
\* confidence between 0 and 1 (0 and 100 hundredths), whether it was parsed
\* from a validated token of the answer or built from a search result.
C19_CitationConfidenceInUnitInterval ==
    (Returned /\ response.status = "returned") =>
        \A i \in 1..Len(response.value.citations) :
            /\ 0 <= response.value.citations[i].confidence
            /\ response.value.citations[i].confidence <= 100

\* C20: for every ingested case and every rule of the ingestion table that
\* is marked indexed, each lowercased value of the rule's field in the case
\* is a key of the global keyword index whose set holds the case_id.
C20_IndexedFieldsInKeywordIndex ==
    LET ing == rag.ingestionService
    IN  \A n \in 1..Len(ing.indexedCases) :
          LET c == ing.indexedCases[n].v.case
          IN  \A r \in 1..Len(INGESTION_RULES) :
                INGESTION_RULES[r].indexed =>
                  LET value == getNestedValue(c, INGESTION_RULES[r].field)
                  IN  \A i \in 1..Len(value) :
                        /\ OMapHas(ing.keywordIndex, toLowerCase(value[i]))
                        /\ c.case_id \in Range(OMapGet(ing.keywordIndex,
                                                       toLowerCase(value[i])))

\* the ids of the artifacts and findings of a migrated case
ArtifactIds(c) == [n \in 1..Len(c.artifacts) |-> c.artifacts[n].artifact_id]

FindingIds(c) == [n \in 1..Len(c.findings) |-> c.findings[n].finding_id]

\* C21: migration gives the n-th source artifact the id case_id_artifact_n
\* and the n-th outcome the id case_id_finding_n, counted from 1; the ids
\* of a case are pairwise distinct; and every id of an ingested case is
\* accepted by validateCitation in the form case_id:id.
C21_SynthesizedIds ==
    /\ \A legacy \in LegacyCases :
          LET c == migrateLegacyCase(legacy)
          IN  /\ Len(c.artifacts) = Len(legacy.artifacts)
              /\ Len(c.findings) = Len(legacy.outcomes)
              /\ \A n \in 1..Len(legacy.artifacts) :
                    /\ c.artifacts[n].artifact_id
                          = legacy.id \o <<"_","a","r","t","i","f","a","c","t","_">> \o numToString(n)
                    /\ c.artifacts[n].type = legacy.artifacts[n].type
                    /\ c.artifacts[n].description = legacy.artifacts[n].description
              /\ \A n \in 1..Len(legacy.outcomes) :
                    /\ c.findings[n].finding_id
                          = legacy.id \o <<"_","f","i","n","d","i","n","g","_">> \o numToString(n)
                    /\ c.findings[n].description = legacy.outcomes[n]
    /\ \A e \in 1..Len(rag.ingestionService.indexedCases) :
          LET c == rag.ingestionService.indexedCases[e].v.case
              ids == ArtifactIds(c) \o FindingIds(c)
          IN  /\ \A n \in 1..Len(c.artifacts) :
                    c.artifacts[n].artifact_id
                       = c.case_id \o <<"_","a","r","t","i","f","a","c","t","_">> \o numToString(n)
              /\ \A n \in 1..Len(c.findings) :
                    c.findings[n].finding_id
                       = c.case_id \o <<"_","f","i","n","d","i","n","g","_">> \o numToString(n)
              /\ \A m, n \in 1..Len(ids) : m # n => ids[m] # ids[n]
              /\ \A n \in 1..Len(ids) :
                    validateCitation(rag.ingestionService, c.case_id \o <<":">> \o ids[n])

\* a case with two artifacts and two findings is ingested, and the citation
\* of its second finding is accepted
C21_Witness ==
    \E e \in 1..Len(rag.ingestionService.indexedCases) :
        LET c == rag.ingestionService.indexedCases[e].v.case
        IN  /\ c.case_id = <<"a","p","t">>
            /\ Len(c.artifacts) = 2
            /\ Len(c.findings) = 2
            /\ c.findings[2].finding_id = <<"a","p","t","_","f","i","n","d","i","n","g","_","2">>
            /\ validateCitation(rag.ingestionService, <<"a","p","t",":","a","p","t","_","f","i","n","d","i","n","g","_","2">>)

\* C22: put(k, v) on a stored key sets its value to v and makes k the most
\* recently used entry; the set of keys, the hit and miss counters, the
\* capacity, and the values and relative order of the other entries stay
\* as they were, and nothing is evicted, full cache or not.
C22_PutOnStoredKey ==
    [][ (lruOut'.op = "put" /\ lruOut'.key \in DOMAIN lru.cache) =>
          LET k == lruOut'.key
          IN  /\ lru'.cache[k].value = lruOut'.value
              /\ lruKeys(lru') = <<k>> \o Without(lruKeys(lru), k)
              /\ DOMAIN lru'.cache = DOMAIN lru.cache
              /\ lruOut'.dropped = {}
              /\ lruSize(lru') = lruSize(lru)
              /\ lru'.hits = lru.hits /\ lru'.misses = lru.misses
              /\ lru'.capacity = lru.capacity
              /\ \A x \in (DOMAIN lru.cache) \ {k} :
                    lru'.cache[x].value = lru.cache[x].value
      ]_vars

\* the least recently used key of a full cache of three was put again with
\* a new value: it is now first, the other two keep their order, all three stay
C22_Witness ==
    /\ lruOut.op = "put"
    /\ Len(lruOut.before) = 3
    /\ lru.capacity = 3
    /\ lruOut.before[3] = lruOut.key
    /\ lruKeys(lru) = <<lruOut.before[3], lruOut.before[1], lruOut.before[2]>>
    /\ lruOut.dropped = {}

\* C23: keys(), values() and entries() list the stored entries from the
\* most to the least recently touched; entries()[i] = [keys()[i],
\* values()[i]]; each has size() elements; the calls return these lists and
\* change neither the cache nor its counters.
C23_SnapshotsAgree ==
    [][ /\ lruKeys(lru') = lruTouch'
        /\ Len(lruKeys(lru')) = lruSize(lru')
        /\ Len(lruValues(lru')) = lruSize(lru')
        /\ Len(lruEntries(lru')) = lruSize(lru')
        /\ \A i \in 1..lruSize(lru') :
              /\ lruValues(lru')[i] = lru'.cache[lruTouch'[i]].value
              /\ lruEntries(lru')[i] = <<lruKeys(lru')[i], lruValues(lru')[i]>>
        /\ lruOut'.op \in {"keys", "values", "entries"}
           => /\ lru' = lru
              /\ lruTouch' = lruTouch
        /\ lruOut'.op = "keys" => lruOut'.result = lruTouch
        /\ lruOut'.op = "values"
           => lruOut'.result = [i \in 1..Len(lruTouch) |-> lru.cache[lruTouch[i]].value]
        /\ lruOut'.op = "entries"
           => lruOut'.result = [i \in 1..Len(lruTouch) |->
                                  <<lruTouch[i], lru.cache[lruTouch[i]].value>>]
      ]_vars

\* entries() of a cache of three, whose oldest key was read again before
\* the call: the key read last comes first
C23_Witness ==
    /\ lruOut.op = "entries"
    /\ Len(lruOut.result) = 3
    /\ lru.hits = 1
    /\ lruOut.result[1][1] = <<"k","1">>
    /\ lruOut.result[2][1] = <<"k","3">>
    /\ lruOut.result[3][1] = <<"k","2">>

\* C24: clear() leaves exactly the object a constructor call with the same
\* capacity gives: no entry, head and tail null, hits = misses = 0; being
\* the same state, it answers every later sequence of calls as a new cache
\* does. resetStats() zeroes hits and misses and changes nothing else.
C24_ClearIsNew ==
    [][ /\ lruOut'.op = "clear"
           => /\ lru' = LRUCacheNew(lru.capacity)
              /\ lruSize(lru') = 0
              /\ lruKeys(lru') = <<>>
              /\ lru'.hits = 0 /\ lru'.misses = 0
              /\ lru'.capacity = lru.capacity
              /\ \A k \in LKeys : ~lruHas(lru', k) /\ lruGetResult(lru', k) = UNDEFINED
        /\ lruOut'.op = "resetStats"
           => /\ lru'.hits = 0 /\ lru'.misses = 0
              /\ lru'.cache = lru.cache
              /\ lru'.head = lru.head /\ lru'.tail = lru.tail
              /\ lru'.capacity = lru.capacity
              /\ lruKeys(lru') = lruKeys(lru)
              /\ lruValues(lru') = lruValues(lru)
      ]_vars

\* a full cache of three was cleared
C24_Witness ==
    /\ lruOut.op = "clear"
    /\ Cardinality(lruOut.dropped) = 3
    /\ lru = LRUCacheNew(3)

\* C25: delete(k) of a stored key returns true and removes exactly k: the
\* other keys keep their values and their order, in both directions of the
\* list, wherever k stood; the counters stay. delete of a key that is not
\* stored returns false and changes nothing. A put of a new key into a
\* cache that is not full, as after a delete from a full one, evicts nothing.
C25_DeleteRemovesExactlyOne ==
    [][ /\ (lruOut'.op = "delete" /\ lruOut'.key \in DOMAIN lru.cache)
           => LET k == lruOut'.key
              IN  /\ lruOut'.result = TRUE
                  /\ DOMAIN lru'.cache = (DOMAIN lru.cache) \ {k}
                  /\ lruSize(lru') = lruSize(lru) - 1
                  /\ lruKeys(lru') = Without(lruKeys(lru), k)
                  /\ Walk(lru', lru'.tail, "prev", lruSize(lru') + 1)
                        = Reverse(Without(lruKeys(lru), k))
                  /\ \A x \in (DOMAIN lru.cache) \ {k} :
                        lru'.cache[x].value = lru.cache[x].value
                  /\ lru'.hits = lru.hits /\ lru'.misses = lru.misses
                  /\ lru'.capacity = lru.capacity
        /\ (lruOut'.op = "delete" /\ lruOut'.key \notin DOMAIN lru.cache)
           => /\ lruOut'.result = FALSE
              /\ lru' = lru
        /\ (lruOut'.op = "put" /\ lruOut'.key \notin DOMAIN lru.cache
            /\ lruSize(lru) < lru.capacity)
           => /\ lruOut'.dropped = {}
              /\ DOMAIN lru'.cache = (DOMAIN lru.cache) \cup {lruOut'.key}
      ]_vars

\* the middle entry of a full cache of three was deleted
C25_Witness ==
    /\ lruOut.op = "delete"
    /\ lruOut.result = TRUE
    /\ lru.capacity = 3
    /\ Len(lruOut.before) = 3
    /\ lruOut.key = lruOut.before[2]
    /\ lruKeys(lru) = <<lruOut.before[1], lruOut.before[3]>>

\* the query has no token of more than two characters once lowercased,
\* stripped of what is no word character, whitespace or hyphen, and split
\* at whitespace
OnlyShortTokens(query) ==
    LET kept == SelectSeq(toLowerCase(query),
                          LAMBDA ch : IsWordChar(ch) \/ IsSpaceChar(ch) \/ ch = "-")
    IN  \A i \in 1..Len(splitSpaces(kept)) : Len(splitSpaces(kept)[i]) <= 2

\* C26: search returns the empty list for every query without a token of
\* more than two characters, whatever is ingested.
C26_ShortTokensFindNothing ==
    (call.op = "searchCases" /\ OnlyShortTokens(call.query)) => response.value = <<>>

\* " Is it ok?" was searched in a ledger that has the empty string among
\* its keywords (a workflow step without a tool), and nothing was returned
C26_Witness ==
    /\ call.op = "searchCases"
    /\ call.query = QueryShortTokens
    /\ OnlyShortTokens(call.query)
    /\ OMapHas(rag.ingestionService.keywordIndex, <<>>)
    /\ response.value = <<>>

\* C27: when a query passes the scope guard and search finds no case,
\* processQuery returns (it does not throw) a response whose answer lists
\* every case id of the ledger on a bullet line of its own, whose citation
\* list is empty, whose confidence is 0 and whose mode is the mode detected
\* for the query.
C27_NotFoundResponse ==
    (/\ call.op = "processQuery"
     /\ isForensicQuery(call.query)
     /\ search(rag.ingestionService, call.query, SearchLimit) = <<>>)
    => /\ response.status = "returned"
       /\ ~call.threw
       /\ response.value.citations = <<>>
       /\ response.value.confidence = 0
       /\ response.value.mode = detectPromptMode(call.query)
       /\ response.value.query = call.query
       /\ \A i \in 1..Len(OMapKeys(rag.ingestionService.indexedCases)) :
              includes(response.value.answer,
                       <<"\n","U+2022"," ">> \o OMapKeys(rag.ingestionService.indexedCases)[i])

C27_Witness ==
    /\ call.op = "processQuery"
    /\ isForensicQuery(call.query)
    /\ detectPromptMode(call.query) = "teaching"
    /\ Len(OMapKeys(rag.ingestionService.indexedCases)) = 2
    /\ search(rag.ingestionService, call.query, SearchLimit) = <<>>
    /\ response.status = "returned"
    /\ response.value.mode = "teaching"
    /\ response.value.citations = <<>>
    /\ includes(response.value.answer, <<"U+2022"," ","a","p","t">>)

\* the artifacts of an ingested case whose type or description contains t,
\* and its findings whose description contains t
ArtifactsContaining(indexed, t) ==
    SelectSeq(indexed.artifact_map,
              LAMBDA e : includes(toLowerCase(e.v.type), t)
                         \/ includes(toLowerCase(e.v.description), t))

FindingsContaining(indexed, t) ==
    SelectSeq(indexed.finding_map, LAMBDA e : includes(toLowerCase(e.v.description), t))

\* C28: a search whose limit admits every ingested case returns each case
\* that has an artifact (type or description) or a finding (description)
\* containing a surviving token of the query, and the result records the ids
\* of those artifacts and findings, whether or not the token is a keyword of
\* the case.
C28_TextMatchesScoredWithoutPosting ==
    (call.op = "searchCases" /\ call.limit >= Len(rag.ingestionService.indexedCases)) =>
        \A n \in 1..Len(rag.ingestionService.indexedCases) :
          \A i \in 1..Len(tokenize(call.query)) :
            LET indexed == rag.ingestionService.indexedCases[n]
                arts == ArtifactsContaining(indexed.v, tokenize(call.query)[i])
                finds == FindingsContaining(indexed.v, tokenize(call.query)[i])
            IN  (Len(arts) + Len(finds) > 0) =>
                  \E r \in 1..Len(response.value) :
                    /\ response.value[r].case_id = indexed.k
                    /\ response.value[r].relevance_score
                         >= ArtifactBonus * Len(arts) + FindingBonus * Len(finds)
                    /\ Range(OMapKeys(arts)) \subseteq Range(response.value[r].matched_artifacts)
                    /\ Range(OMapKeys(finds)) \subseteq Range(response.value[r].matched_findings)

\* the weight of the first rule, from rule r on in table order, whose field
\* name contains t; the default weight when there is none
RECURSIVE FirstRuleWeight(_, _)
FirstRuleWeight(t, r) ==
    IF r > Len(INGESTION_RULES) THEN DefaultTermWeight
    ELSE IF includes(INGESTION_RULES[r].field, t) THEN INGESTION_RULES[r].weight
    ELSE FirstRuleWeight(t, r + 1)

\* whether the case is in the posting list of t
Posted(ing, t, caseId) ==
    /\ OMapHas(ing.keywordIndex, t)
    /\ caseId \in Range(OMapGet(ing.keywordIndex, t))

\* the sum, over the tokens in sequence, of what a token that has the case
\* in its posting list adds: its rule weight and the artifact and finding bonuses
RECURSIVE ExpectedScore(_, _, _)
ExpectedScore(ing, terms, caseId) ==
    IF Len(terms) = 0 THEN 0
    ELSE ExpectedScore(ing, Front(terms), caseId)
         + (IF Posted(ing, terms[Len(terms)], caseId)
            THEN FirstRuleWeight(terms[Len(terms)], 1)
                 + ArtifactBonus * Len(ArtifactsContaining(OMapGet(ing.indexedCases, caseId),
                                                           terms[Len(terms)]))
                 + FindingBonus * Len(FindingsContaining(OMapGet(ing.indexedCases, caseId),
                                                         terms[Len(terms)]))
            ELSE 0)

\* C29: in a search whose limit admits every ingested case, the score of a
\* returned case is the sum over the query tokens in sequence, repeated
\* tokens counted each time, of the weight of the first rule in table order
\* whose field name contains the token (the default weight when none does),
\* taken for the tokens that have the case in their posting list, plus the
\* artifact and finding bonuses of those tokens; matched_keywords lists
\* exactly those tokens, and a case that no token posts is not returned.
C29_ScoreIsSumOfFirstRuleWeights ==
    (call.op = "searchCases" /\ call.limit >= Len(rag.ingestionService.indexedCases)) =>
        /\ \A r \in 1..Len(response.value) :
             /\ OMapHas(rag.ingestionService.indexedCases, response.value[r].case_id)
             /\ response.value[r].relevance_score
                  = ExpectedScore(rag.ingestionService, tokenize(call.query),
                                  response.value[r].case_id)
             /\ response.value[r].matched_keywords
                  = SelectSeq(tokenize(call.query),
                              LAMBDA t : Posted(rag.ingestionService, t,
                                                response.value[r].case_id))
        /\ \A n \in 1..Len(rag.ingestionService.indexedCases) :
             (\E i \in 1..Len(tokenize(call.query)) :
                 Posted(rag.ingestionService, tokenize(call.query)[i],
                        rag.ingestionService.indexedCases[n].k))
             => \E r \in 1..Len(response.value) :
                    response.value[r].case_id = rag.ingestionService.indexedCases[n].k

C29_Witness ==
    /\ call.op = "searchCases"
    /\ call.query = <<"t","y","p","e"," ","t","y","p","e">>
    /\ FirstRuleWeight(<<"t","y","p","e">>, 1) = 90
    /\ Len(response.value) = 1
    /\ response.value[1].case_id = <<"a","p","t">>
    /\ response.value[1].matched_keywords = <<<<"t","y","p","e">>, <<"t","y","p","e">>>>
    /\ response.value[1].relevance_score = 180

\* the place at which a case is first matched while the tokens are processed:
\* the index of the first token that posts it, then its place in the posting
\* list of that token
FirstMatch(ing, terms, caseId) ==
    LET i == CHOOSE i \in 1..Len(terms) :
                 /\ Posted(ing, terms[i], caseId)
                 /\ \A j \in 1..(i - 1) : ~Posted(ing, terms[j], caseId)
        posting == OMapGet(ing.keywordIndex, terms[i])
    IN  <<i, CHOOSE p \in 1..Len(posting) : posting[p] = caseId>>

MatchedBefore(ing, terms, a, b) ==
    \/ FirstMatch(ing, terms, a)[1] < FirstMatch(ing, terms, b)[1]
    \/ /\ FirstMatch(ing, terms, a)[1] = FirstMatch(ing, terms, b)[1]
       /\ FirstMatch(ing, terms, a)[2] < FirstMatch(ing, terms, b)[2]

\* C30: search(query, limit) returns at most limit results; their case_ids
\* are pairwise distinct ids of ingested cases, each score is above 0, the
\* scores do not increase along the list, and of two results with the same
\* score the one first matched while the tokens were processed comes first.
C30_SearchResultShape ==
    (call.op = "searchCases") =>
        /\ Len(response.value) <= call.limit
        /\ \A r \in 1..Len(response.value) :
             /\ OMapHas(rag.ingestionService.indexedCases, response.value[r].case_id)
             /\ response.value[r].relevance_score > 0
             /\ \E i \in 1..Len(tokenize(call.query)) :
                    Posted(rag.ingestionService, tokenize(call.query)[i],
                           response.value[r].case_id)
        /\ \A r \in 1..Len(response.value) : \A q \in (r + 1)..Len(response.value) :
             /\ response.value[r].case_id # response.value[q].case_id
             /\ response.value[r].relevance_score >= response.value[q].relevance_score
             /\ (response.value[r].relevance_score = response.value[q].relevance_score)
                => MatchedBefore(rag.ingestionService, tokenize(call.query),
                                 response.value[r].case_id, response.value[q].case_id)

C30_Witness ==
    /\ call.op = "searchCases"
    /\ call.limit = 2
    /\ Len(tokenize(call.query)) = 3
    /\ Len(response.value) = 2
    /\ response.value[1].case_id = <<"a","p","t">>
    /\ response.value[2].case_id = <<"r","a","n","s","o","m","w","a","r","e","-","i","n","v","e","s","t","i","g","a","t","i",
      "o","n">>
    /\ response.value[1].relevance_score = response.value[2].relevance_score
    /\ OMapKeys(rag.ingestionService.indexedCases) = <<<<"a","p","t">>, <<"r","a","n","s","o","m","w","a","r","e","-","i","n","v","e","s","t","i","g","a","t","i",
      "o","n">>>>

\* C31: the trie holds no dead-end node: every node other than the root is
\* terminal or has a child; for every non-empty prefix, startsWith is true
\* exactly when a stored word has it as a case-insensitive prefix; and when
\* no word is stored the root has no children.
C31_NoDeadEndNodes ==
    /\ \A p \in DOMAIN trie.nodes :
         p # <<>> => (trie.nodes[p].isEndOfWord \/ Len(trie.nodes[p].children) > 0)
    /\ \A p \in TWords :
         (p # <<>>)
         => (trieStartsWith(trie, p)
             <=> \E w \in trieWords : strStartsWith(w, toLowerCase(p)))
    /\ \A p \in TWords :
         (p # <<>> /\ toLowerCase(p) \in DOMAIN trie.nodes)
         => \E w \in trieWords : strStartsWith(w, toLowerCase(p))
    /\ (trieWords = {}) => (<<>> \in DOMAIN trie.nodes /\ trie.nodes[<<>>].children = <<>>)

C31_Witness ==
    /\ trieOut.op = "delete"
    /\ trieOut.result = TRUE
    /\ Len(trieOut.arg) = MaxWordLen
    /\ trieWords = {}
    /\ DOMAIN trie.nodes = {<<>>}
    /\ ~trieStartsWith(trie, SubSeq(trieOut.arg, 1, 1))

\* the stored words that have the prefix, case-insensitively
Matching(prefix) == {w \in trieWords : strStartsWith(w, toLowerCase(prefix))}

\* C32: for a non-empty prefix, autocomplete with a limit of at least the
\* number of matching stored words returns exactly those words, each once,
\* the prefix itself first when it is stored; with a smaller positive limit
\* it returns limit of them without duplicates; for the empty prefix it
\* returns the empty list although startsWith of the empty prefix is true.
C32_AutocompleteReturnsMatches ==
    (trieOut.op = "autocomplete") =>
        LET found == {toLowerCase(trieOut.result[i]) : i \in 1..Len(trieOut.result)}
        IN  /\ (trieOut.arg = <<>>)
               => (trieOut.result = <<>> /\ trieStartsWith(trie, trieOut.arg))
            /\ (trieOut.arg # <<>> /\ trieOut.limit >= Cardinality(Matching(trieOut.arg)))
               => /\ found = Matching(trieOut.arg)
                  /\ Len(trieOut.result) = Cardinality(Matching(trieOut.arg))
                  /\ (toLowerCase(trieOut.arg) \in trieWords)
                     => toLowerCase(trieOut.result[1]) = toLowerCase(trieOut.arg)
            /\ (/\ trieOut.arg # <<>>
                /\ trieOut.limit > 0
                /\ trieOut.limit < Cardinality(Matching(trieOut.arg)))
               => /\ Len(trieOut.result) = trieOut.limit
                  /\ Cardinality(found) = trieOut.limit
                  /\ found \subseteq Matching(trieOut.arg)

C32_Witness ==
    /\ trieOut.op = "autocomplete"
    /\ Len(trieOut.arg) = 1
    /\ trieOut.limit = 2
    /\ toLowerCase(trieOut.arg) \in trieWords
    /\ Cardinality(Matching(trieOut.arg)) = 2
    /\ Len(trieOut.result) = 2
    /\ toLowerCase(trieOut.result[1]) = toLowerCase(trieOut.arg)

\* C33: delete of a word that is not stored (the empty string, a word never
\* inserted or already deleted, a strict prefix of stored words) returns
\* false and leaves the trie as it was: same nodes, same size, and so the
\* same result of every search, startsWith and autocomplete.
C33_DeleteOfAbsentWord ==
    [][\A w \in TWords :
          (TrieDelete(w) /\ toLowerCase(w) \notin trieWords)
          => /\ trieOut'.result = FALSE
             /\ trie' = trie
             /\ getSize(trie') = getSize(trie)
             /\ \A q \in TWords :
                  /\ trieSearch(trie', q) = trieSearch(trie, q)
                  /\ trieStartsWith(trie', q) = trieStartsWith(trie, q)
                  /\ \A limit \in 0..MaxLimit :
                       autocomplete(trie', q, limit) = autocomplete(trie, q, limit)]_vars

C33_Witness ==
    /\ trieOut.op = "delete"
    /\ trieOut.result = FALSE
    /\ Len(trieOut.arg) = 1
    /\ toLowerCase(trieOut.arg) \in DOMAIN trie.nodes
    /\ ~trie.nodes[toLowerCase(trieOut.arg)].isEndOfWord
    /\ trie.size = 2
    /\ Cardinality(Matching(trieOut.arg)) = 2

\* the bracketed tokens of an answer that the citation validation retains
RetainedTokens(answer) ==
    SelectSeq(extractCitations(answer),
              LAMBDA cit : validateCitation(rag.ingestionService, cit))

\* C34: for every ingested case and every artifact or finding id of it, the
\* token case_id:item_id:sub_id has a valid format, is accepted by the
\* citation validation and is retained from an answer that holds it in
\* brackets, like the token case_id:item_id.
C34_ThreePartCitationAccepted ==
    \A n \in 1..Len(rag.ingestionService.indexedCases) :
      LET indexed == rag.ingestionService.indexedCases[n]
          items == OMapKeys(indexed.v.artifact_map) \o OMapKeys(indexed.v.finding_map)
      IN  \A i \in 1..Len(items) :
            /\ validateCitationFormat(indexed.k \o <<":">> \o items[i])
            /\ validateCitationFormat(indexed.k \o <<":">> \o items[i] \o <<":","h","a","s","h">>)
            /\ RetainedTokens(<<"S","e","e"," ","[">> \o indexed.k \o <<":">> \o items[i] \o <<"]",".">>)
                 = <<indexed.k \o <<":">> \o items[i]>>
            /\ RetainedTokens(<<"S","e","e"," ","[">> \o indexed.k \o <<":">> \o items[i] \o <<":","h","a","s","h","]",".">>)
                 = <<indexed.k \o <<":">> \o items[i] \o <<":","h","a","s","h">>>>

QueryOps ==
    {"processQuery", "searchCases", "validateCitation", "getAutocompleteSuggestions",
     "getStats", "detectPromptMode"}

\* what the operation of the call gives when it is run on the service svc
ResultOn(svc, c) ==
    CASE c.op = "processQuery" -> processQuery(svc, c.query).value
      [] c.op = "searchCases" -> search(svc.ingestionService, c.query, c.limit)
      [] c.op = "validateCitation" -> validateCitation(svc.ingestionService, c.query)
      [] c.op = "getAutocompleteSuggestions" ->
             getAutocompleteSuggestions(svc.ingestionService, c.query)
      [] c.op = "getStats" -> ragGetStats(svc)
      [] OTHER -> detectPromptMode(c.query)

C36_CitationFieldsNameTheirKind ==
    (Returned /\ response.status = "returned") =>
        \A i \in 1..Len(response.value.citations) :
          LET cit == response.value.citations[i]
          IN  OMapHas(rag.ingestionService.indexedCases, cit.case_id) =>
                LET indexed == OMapGet(rag.ingestionService.indexedCases, cit.case_id)
                IN  /\ (cit.artifact_id # UNDEFINED)
                       => OMapHas(indexed.artifact_map, cit.artifact_id)
                    /\ (cit.finding_id # UNDEFINED)
                       => OMapHas(indexed.finding_map, cit.finding_id)

\* the lowercased keywords of the record currently stored for a case
StoredKeywords(ing, caseId) ==
    LET kws == OMapGet(ing.indexedCases, caseId).case.keywords
    IN  {toLowerCase(kws[i]) : i \in 1..Len(kws)}

\* C37: the ledger holds one record per case_id, and a case_id is in the
\* posting list of a keyword exactly when the record stored for that
\* case_id lists the keyword (lowercased).
C37_PostingsFollowStoredRecord ==
    LET ing == rag.ingestionService
    IN  /\ \A i, j \in 1..Len(ing.indexedCases) :
             (ing.indexedCases[i].k = ing.indexedCases[j].k) => i = j
        /\ \A n \in 1..Len(ing.keywordIndex) :
             \A caseId \in Range(ing.keywordIndex[n].v) :
               /\ OMapHas(ing.indexedCases, caseId)
               /\ ing.keywordIndex[n].k \in StoredKeywords(ing, caseId)
        /\ \A i \in 1..Len(ing.indexedCases) :
             \A kw \in StoredKeywords(ing, ing.indexedCases[i].k) :
               Posted(ing, kw, ing.indexedCases[i].k)

\* the tool names of the workflow of a legacy case
WorkflowTools(legacy) == {legacy.workflow[i].tool : i \in 1..Len(legacy.workflow)}

\* C38: every migrated record of the ledger is referentially closed: a
\* timeline event carries the id of the artifact at its position, or none
\* when the case has no artifact there; every id of a supporting_artifacts
\* list is the id of an artifact of the same case; and tools_used holds
\* each distinct workflow tool name exactly once.
C38_MigratedRecordClosed ==
    \A n \in 1..Len(rag.enhancedCases) :
      LET c == rag.enhancedCases[n].v
          ids == {c.artifacts[i].artifact_id : i \in 1..Len(c.artifacts)}
      IN  /\ \A i \in 1..Len(c.timeline) :
               IF i <= Len(c.artifacts)
               THEN c.timeline[i].artifact_id = c.artifacts[i].artifact_id
               ELSE c.timeline[i].artifact_id = UNDEFINED
          /\ \A i \in 1..Len(c.findings) :
               Range(c.findings[i].supporting_artifacts) \subseteq ids
          /\ \A i, j \in 1..Len(c.tools_used) :
               (c.tools_used[i].tool_name = c.tools_used[j].tool_name) => i = j
          /\ \E legacy \in LegacyCases :
               /\ legacy.id = c.case_id
               /\ legacy.scenario = c.scenario
               /\ {c.tools_used[i].tool_name : i \in 1..Len(c.tools_used)}
                    = WorkflowTools(legacy)

C38_Witness ==
    /\ OMapHas(rag.enhancedCases, <<"a","p","t">>)
    /\ LET c == OMapGet(rag.enhancedCases, <<"a","p","t">>)
       IN  /\ Len(c.timeline) = 4
           /\ Len(c.artifacts) = 2
           /\ c.timeline[2].artifact_id = <<"a","p","t","_","a","r","t","i","f","a","c","t","_","2">>
           /\ c.timeline[3].artifact_id = UNDEFINED
           /\ Len(c.tools_used) = 3
           /\ c.findings[1].supporting_artifacts = <<<<"a","p","t","_","a","r","t","i","f","a","c","t","_","1">>>>

\* C39: has(k) returns true exactly when k is stored and changes neither the
\* contents, the recency order nor the hit and miss counters: when the cache
\* is full and k is its least recently used key, a put of an absent key
\* right after the check still evicts k.
C39_HasIsPureObservation ==
    [][(lruOut'.op = "has")
       => /\ lruOut'.result = (lruOut'.key \in DOMAIN lru.cache)
          /\ lru' = lru
          /\ lruKeys(lru') = lruKeys(lru)
          /\ lruTouch' = lruTouch
          /\ lruOut'.dropped = {}
          /\ (/\ lruSize(lru) = lru.capacity
              /\ lruKeys(lru)[lruSize(lru)] = lruOut'.key)
             => \A x \in LKeys \ DOMAIN lru.cache : \A v \in LValues :
                    lruOut'.key \notin DOMAIN lruPut(lru', x, v).cache]_vars

C39_Witness ==
    /\ lruOut.op = "has"
    /\ lruOut.result = TRUE
    /\ lruSize(lru) = lru.capacity
    /\ lru.capacity = 2
    /\ lruKeys(lru)[2] = lruOut.key
    /\ lru.hits = 1

\* the edges in the graph: the ordered pairs (from, to) of a directed graph;
\* for an undirected graph the sets {from, to}, an edge counted once
EdgesIn(g) ==
    LET held == {<<g.adjacencyList[n].k, to>> : n \in 1..Len(g.adjacencyList),
                                               to \in GVertices}
        present == {p \in held : hasEdge(g, p[1], p[2])}
    IN  IF g.isDirected THEN present ELSE {{p[1], p[2]} : p \in present}

\* C40: getEdgeCount() is the number of edges in the graph (an undirected
\* edge counted once) and is never negative, and getVertexCount() is the
\* number of vertices, after any sequence of addVertex, addEdge,
\* removeEdge, removeVertex and clear.
C40_CountsMatchGraph ==
    /\ getVertexCount(graph) = Len(graph.adjacencyList)
    /\ getEdgeCount(graph) >= 0
    /\ getEdgeCount(graph) = Cardinality(EdgesIn(graph))
====
